---- MODULE Spec2Model ----
(***************************************************************************)
(* Model of the Tides Streamlit client's two service clients:              *)
(*   AgentClient (src/services/agent_client.py) and                        *)
(*   MCPClient   (src/services/mcp_client.py).                             *)
(*                                                                         *)
(* Texts (response bodies, messages) are TLA+ strings handled character    *)
(* by character; Python/JSON values are tagged records [t, v]; a Python    *)
(* function is an operator returning an outcome that is either a returned  *)
(* value or a raised exception, so that try/except is modelled explicitly. *)
(***************************************************************************)
EXTENDS Integers, Sequences, FiniteSets, TLC

VARIABLES
    agent,  \* the AgentClient instance's fields
    mcp,    \* the MCPClient instance's fields
    net,    \* the outbound requests issued by the invocation in `last`
    last,   \* the most recent client invocation: arguments, backend, outcome
    earlier, \* how the invocation before it ended: "none", "returned" or "failed"
    session, \* st.session_state, a dict
    ui      \* the most recent handler of the presentation layer and how it ended

vars == <<agent, mcp, net, last, earlier, session, ui>>

-----------------------------------------------------------------------------
(* Python values.  t is the type tag; v the payload:                       *)
(*   null: 0, bool: BOOLEAN, num: Int, str: STRING,                        *)
(*   arr: sequence of values, obj: sequence of [k, v] pairs with distinct  *)
(*   keys in insertion order (a Python dict).                              *)

PyNone == [t |-> "null", v |-> 0]
PyBool(b) == [t |-> "bool", v |-> b]
PyNum(n) == [t |-> "num", v |-> n]
PyStr(s) == [t |-> "str", v |-> s]
PyList(xs) == [t |-> "arr", v |-> xs]
PyDict(pairs) == [t |-> "obj", v |-> pairs]
KV(key, val) == [k |-> key, v |-> val]

IsDict(x) == x.t = "obj"

Keys(d) == {d.v[i].k : i \in 1..Len(d.v)}
HasKey(d, key) == \E i \in 1..Len(d.v) : d.v[i].k = key
GetKey(d, key) == d.v[CHOOSE i \in 1..Len(d.v) : d.v[i].k = key].v

\* d[key] = val on a dict: an existing key keeps its position.
SetKey(d, key, val) ==
    IF HasKey(d, key)
    THEN PyDict([i \in 1..Len(d.v) |->
                    IF d.v[i].k = key THEN KV(key, val) ELSE d.v[i]])
    ELSE PyDict(Append(d.v, KV(key, val)))

\* bool(x) for the value types above.
Truthy(x) ==
    CASE x.t = "null" -> FALSE
      [] x.t = "bool" -> x.v
      [] x.t = "num" -> x.v # 0
      [] x.t = "str" -> x.v # ""
      [] OTHER -> Len(x.v) > 0

-----------------------------------------------------------------------------
(* Outcomes of a Python call: a returned value or a raised exception.     *)

Return(val) == [k |-> "return", v |-> val, e |-> [type |-> "", msg |-> ""]]
Raise(type, msg) == [k |-> "raise", v |-> PyNone, e |-> [type |-> type, msg |-> msg]]
Raised(o) == o.k = "raise"

-----------------------------------------------------------------------------
(* Python str operations, character by character.                         *)

Min(S) == CHOOSE m \in S : \A n \in S : m <= n
Max(S) == CHOOSE m \in S : \A n \in S : m >= n

Ch(s, i) == IF i >= 1 /\ i <= Len(s) THEN SubSeq(s, i, i) ELSE ""

\* s.startswith(p)
StartsWith(s, p) == Len(s) >= Len(p) /\ SubSeq(s, 1, Len(p)) = p

\* StartsAt(s, i, p): s[i-1:].startswith(p), positions from 1
StartsAt(s, i, p) == i + Len(p) - 1 <= Len(s) /\ SubSeq(s, i, i + Len(p) - 1) = p

\* p in s, for strings
Contains(s, p) == \E i \in 1..(Len(s) - Len(p) + 1) : StartsAt(s, i, p)

\* s[n:] and s[:n], n >= 0
SliceFrom(s, n) == SubSeq(s, n + 1, Len(s))
SliceTo(s, n) == IF n >= Len(s) THEN s ELSE SubSeq(s, 1, n)

\* s.strip()
Strip(s) ==
    LET keep == {i \in 1..Len(s) : Ch(s, i) \notin {" ", "\t", "\n", "\r"}}
    IN  IF keep = {} THEN "" ELSE SubSeq(s, Min(keep), Max(keep))

\* s.split(sep) for a non-empty separator: always at least one piece.
RECURSIVE SplitFrom(_, _, _)
SplitAt(s, sep, from, cuts) ==
    IF cuts = {}
    THEN <<SubSeq(s, from, Len(s))>>
    ELSE <<SubSeq(s, from, Min(cuts) - 1)>> \o SplitFrom(s, sep, Min(cuts) + Len(sep))

SplitFrom(s, sep, from) ==
    SplitAt(s, sep, from, {i \in from..Len(s) : StartsAt(s, i, sep)})

Split(s, sep) == SplitFrom(s, sep, 1)

-----------------------------------------------------------------------------
(* json.loads on texts without backslash escapes, signs, fractions or     *)
(* exponents: objects, arrays, strings, non-negative integers and the     *)
(* literals null, true, false, separated by JSON whitespace.              *)

Digits == {"0", "1", "2", "3", "4", "5", "6", "7", "8", "9"}

DigitValue(c) ==
    CASE c = "0" -> 0 [] c = "1" -> 1 [] c = "2" -> 2 [] c = "3" -> 3
      [] c = "4" -> 4 [] c = "5" -> 5 [] c = "6" -> 6 [] c = "7" -> 7
      [] c = "8" -> 8 [] c = "9" -> 9

ParseFail == [ok |-> FALSE, v |-> PyNone, i |-> 0]
ParseOk(val, next) == [ok |-> TRUE, v |-> val, i |-> next]

\* First position >= i holding a non-whitespace character (Len(s)+1 at the end).
SkipWs(s, i) ==
    LET non == {j \in i..Len(s) : Ch(s, j) \notin {" ", "\t", "\n", "\r"}}
    IN  IF non = {} THEN Len(s) + 1 ELSE Min(non)

\* A string starting at the quote s[i]; control characters are rejected.
StringUpTo(s, i, j) ==
    IF \E c \in (i + 1)..(j - 1) : Ch(s, c) \in {"\n", "\r", "\t"}
    THEN ParseFail
    ELSE ParseOk(PyStr(SubSeq(s, i + 1, j - 1)), j + 1)

ParseString(s, i) ==
    LET ends == {j \in (i + 1)..Len(s) : Ch(s, j) = "\""}
    IN  IF ends = {} THEN ParseFail ELSE StringUpTo(s, i, Min(ends))

RECURSIVE DigitsValue(_, _, _)
DigitsValue(s, i, j) ==
    IF j < i THEN 0 ELSE 10 * DigitsValue(s, i, j - 1) + DigitValue(Ch(s, j))

\* An integer starting at the digit s[i]: 0 | [1-9][0-9]*
NumberStops(s, i, stops) ==
    IF stops = {} THEN ParseOk(PyNum(DigitsValue(s, i, Len(s))), Len(s) + 1)
    ELSE ParseOk(PyNum(DigitsValue(s, i, Min(stops) - 1)), Min(stops))

ParseNumber(s, i) ==
    IF Ch(s, i) = "0" THEN ParseOk(PyNum(0), i + 1)
    ELSE NumberStops(s, i, {j \in i..Len(s) : Ch(s, j) \notin Digits})

RECURSIVE ParseValue(_, _)
RECURSIVE ParseMembers(_, _, _)
RECURSIVE ParseElements(_, _, _)

\* After a member's value: "}" ends the object, "," leads to the next key.
MembersNext(s, acc, after) ==
    CASE Ch(s, after) = "}" -> ParseOk(acc, after + 1)
      [] Ch(s, after) = "," -> ParseMembers(s, SkipWs(s, after + 1), acc)
      [] OTHER -> ParseFail

\* A repeated key keeps the last value.
MembersAfterValue(s, acc, name, val) ==
    IF ~val.ok THEN ParseFail
    ELSE MembersNext(s, SetKey(acc, name, val.v), SkipWs(s, val.i))

MembersAtColon(s, acc, name, colon) ==
    IF Ch(s, colon) # ":" THEN ParseFail
    ELSE MembersAfterValue(s, acc, name, ParseValue(s, SkipWs(s, colon + 1)))

MembersAfterKey(s, acc, key) ==
    IF ~key.ok THEN ParseFail
    ELSE MembersAtColon(s, acc, key.v.v, SkipWs(s, key.i))

\* Members of an object from the key's opening quote at s[j].
ParseMembers(s, j, acc) ==
    IF Ch(s, j) # "\"" THEN ParseFail
    ELSE MembersAfterKey(s, acc, ParseString(s, j))

\* After an element: "]" ends the array, "," leads to the next element.
ElementsNext(s, acc, after) ==
    CASE Ch(s, after) = "]" -> ParseOk(PyList(acc), after + 1)
      [] Ch(s, after) = "," -> ParseElements(s, SkipWs(s, after + 1), acc)
      [] OTHER -> ParseFail

ElementsAfterValue(s, acc, val) ==
    IF ~val.ok THEN ParseFail
    ELSE ElementsNext(s, Append(acc, val.v), SkipWs(s, val.i))

\* Elements of an array from the first character of an element at s[j].
ParseElements(s, j, acc) == ElementsAfterValue(s, acc, ParseValue(s, j))

ObjectFrom(s, j) ==
    IF Ch(s, j) = "}" THEN ParseOk(PyDict(<<>>), j + 1)
    ELSE ParseMembers(s, j, PyDict(<<>>))

ArrayFrom(s, j) ==
    IF Ch(s, j) = "]" THEN ParseOk(PyList(<<>>), j + 1)
    ELSE ParseElements(s, j, <<>>)

ValueAt(s, i, c) ==
    CASE c = "{" -> ObjectFrom(s, SkipWs(s, i + 1))
      [] c = "[" -> ArrayFrom(s, SkipWs(s, i + 1))
      [] c = "\"" -> ParseString(s, i)
      [] c \in Digits -> ParseNumber(s, i)
      [] StartsAt(s, i, "null") -> ParseOk(PyNone, i + 4)
      [] StartsAt(s, i, "true") -> ParseOk(PyBool(TRUE), i + 4)
      [] StartsAt(s, i, "false") -> ParseOk(PyBool(FALSE), i + 5)
      [] OTHER -> ParseFail

\* The value starting at s[i].
ParseValue(s, i) == ValueAt(s, i, Ch(s, i))

\* The whole text must be one value between optional whitespace.
LoadsResult(s, r) ==
    IF r.ok /\ SkipWs(s, r.i) = Len(s) + 1
    THEN Return(r.v)
    ELSE Raise("JSONDecodeError", "Expecting value")

\* json.loads(s): the decoded value, or JSONDecodeError.
JsonLoads(s) == LoadsResult(s, ParseValue(s, SkipWs(s, 1)))

-----------------------------------------------------------------------------
(* repr(x) and str(x) of a Python value (strings without backslashes or   *)
(* control characters, as json.loads above produces them).                *)

RECURSIVE PyRepr(_)
RECURSIVE ReprItems(_, _)
RECURSIVE ReprPairs(_, _)

ReprItems(xs, i) ==
    IF i > Len(xs) THEN ""
    ELSE (IF i > 1 THEN ", " ELSE "") \o PyRepr(xs[i]) \o ReprItems(xs, i + 1)

ReprPairs(ps, i) ==
    IF i > Len(ps) THEN ""
    ELSE (IF i > 1 THEN ", " ELSE "") \o PyRepr(PyStr(ps[i].k)) \o ": "
             \o PyRepr(ps[i].v) \o ReprPairs(ps, i + 1)

PyRepr(x) ==
    CASE x.t = "null" -> "None"
      [] x.t = "bool" -> IF x.v THEN "True" ELSE "False"
      [] x.t = "num" -> ToString(x.v)
      [] x.t = "str" -> IF Contains(x.v, "'") /\ ~Contains(x.v, "\"")
                        THEN "\"" \o x.v \o "\""
                        ELSE "'" \o x.v \o "'"
      [] x.t = "arr" -> "[" \o ReprItems(x.v, 1) \o "]"
      [] x.t = "obj" -> "{" \o ReprPairs(x.v, 1) \o "}"

\* str(x), also what an f-string inserts for {x}
PyToStr(x) == IF x.t = "str" THEN x.v ELSE PyRepr(x)

-----------------------------------------------------------------------------
(* Python operators on values of any type, with the exceptions they raise. *)

TypeName(x) ==
    CASE x.t = "null" -> "NoneType"
      [] x.t = "bool" -> "bool"
      [] x.t = "num" -> "int"
      [] x.t = "str" -> "str"
      [] x.t = "arr" -> "list"
      [] x.t = "obj" -> "dict"

\* key in x, for a str key: dict key, substring of a str, element of a list.
PyIn(key, x) ==
    CASE x.t = "obj" -> Return(PyBool(HasKey(x, key)))
      [] x.t = "str" -> Return(PyBool(Contains(x.v, key)))
      [] x.t = "arr" -> Return(PyBool(\E i \in 1..Len(x.v) :
                                         x.v[i].t = "str" /\ x.v[i].v = key))
      [] OTHER -> Raise("TypeError",
                        "argument of type '" \o TypeName(x) \o "' is not iterable")

\* x[key], for a str key
PyGetItem(x, key) ==
    CASE x.t = "obj" -> IF HasKey(x, key) THEN Return(GetKey(x, key))
                        ELSE Raise("KeyError", "'" \o key \o "'")
      [] x.t = "str" -> Raise("TypeError", "string indices must be integers, not 'str'")
      [] x.t = "arr" -> Raise("TypeError",
                              "list indices must be integers or slices, not str")
      [] OTHER -> Raise("TypeError",
                        "'" \o TypeName(x) \o "' object is not subscriptable")

\* x.get(key, default): only a dict has the method.
PyGet(x, key, default) ==
    IF x.t = "obj"
    THEN Return(IF HasKey(x, key) THEN GetKey(x, key) ELSE default)
    ELSE Raise("AttributeError",
               "'" \o TypeName(x) \o "' object has no attribute 'get'")

\* The items a for loop (or enumerate) takes from x.
RECURSIVE CharsOf(_, _)
CharsOf(s, i) == IF i > Len(s) THEN <<>> ELSE <<PyStr(Ch(s, i))>> \o CharsOf(s, i + 1)

PyIter(x) ==
    CASE x.t = "arr" -> Return(PyList(x.v))
      [] x.t = "str" -> Return(PyList(CharsOf(x.v, 1)))
      [] x.t = "obj" -> Return(PyList([i \in 1..Len(x.v) |-> PyStr(x.v[i].k)]))
      [] OTHER -> Raise("TypeError", "'" \o TypeName(x) \o "' object is not iterable")

\* x[:n]
PySliceTo(x, n) ==
    CASE x.t = "arr" -> Return(PyList(IF n >= Len(x.v) THEN x.v ELSE SubSeq(x.v, 1, n)))
      [] x.t = "str" -> Return(PyStr(SliceTo(x.v, n)))
      [] x.t = "obj" -> Raise("TypeError", "unhashable type: 'slice'")
      [] OTHER -> Raise("TypeError",
                        "'" \o TypeName(x) \o "' object is not subscriptable")

\* len(x)
PyLen(x) ==
    IF x.t \in {"arr", "str", "obj"} THEN Return(PyNum(Len(x.v)))
    ELSE Raise("TypeError", "object of type '" \o TypeName(x) \o "' has no len()")

\* x == s for a str literal s

LowerCase == "abcdefghijklmnopqrstuvwxyz"
UpperCase == "ABCDEFGHIJKLMNOPQRSTUVWXYZ"
IsLetter(c) == c # "" /\ (Contains(LowerCase, c) \/ Contains(UpperCase, c))
LetterIndex(c) ==
    CHOOSE i \in 1..26 : Ch(LowerCase, i) = c \/ Ch(UpperCase, i) = c

\* s.title(): a letter is uppercased after a non-letter, lowercased after a letter.
RECURSIVE TitleFrom(_, _)
TitleFrom(s, i) ==
    IF i > Len(s) THEN ""
    ELSE (IF IsLetter(Ch(s, i - 1)) THEN (IF IsLetter(Ch(s, i)) THEN Ch(LowerCase, LetterIndex(Ch(s, i))) ELSE Ch(s, i))
          ELSE (IF IsLetter(Ch(s, i)) THEN Ch(UpperCase, LetterIndex(Ch(s, i))) ELSE Ch(s, i)))
         \o TitleFrom(s, i + 1)


\* x.title(): only a str has the method.
PyTitle(x) ==
    IF x.t = "str" THEN Return(PyStr(TitleFrom(x.v, 1)))
    ELSE Raise("AttributeError",
               "'" \o TypeName(x) \o "' object has no attribute 'title'")

\* left + right on two str outcomes, evaluated left to right.
Concat(left, right) ==
    IF Raised(left) THEN left
    ELSE IF Raised(right) THEN right
    ELSE Return(PyStr(left.v.v \o right.v.v))

Text(s) == Return(PyStr(s))

-----------------------------------------------------------------------------
(* The HTTP backend as the clients see it through requests.post: either   *)
(* the call raises (connection refused, DNS failure, timeout) or it       *)
(* returns a response with a status code, a content type and a body text. *)

BackendRaises(type, msg) ==
    [k |-> "raise", e |-> [type |-> type, msg |-> msg], status |-> 0, ctype |-> "", text |-> ""]
BackendReplies(status, ctype, text) ==
    [k |-> "reply", e |-> [type |-> "", msg |-> ""], status |-> status, ctype |-> ctype, text |-> text]

\* One call of requests.post as logged in net.
Request(url, json, headers, timeout) ==
    [url |-> url, json |-> json, headers |-> headers, timeout |-> timeout]

\* What an invocation did: its outcome and the requests it issued.
Did(out, sent) == [out |-> out, sent |-> sent]

\* requests.post: the exception it raises, else what the caller makes of the response
Posted(b, on_response) ==
    IF b.k = "raise" THEN Raise(b.e.type, b.e.msg) ELSE on_response

\* response.json()
ResponseJson(b) == JsonLoads(b.text)

-----------------------------------------------------------------------------
(* AgentClient                                                            *)

\* Values imported from the config package.
DEFAULT_TIDE_ID == "daily-tide-default"
DEFAULT_TIMEOUT == 30

\* AgentClient.__init__
AgentClient(environment, timeout) ==
    [environment |-> environment,
     timeout |-> timeout,
     base_url |-> "https://tides-agent-102.mpazbot.workers.dev",
     api_key |-> PyNone,
     tides_id |-> PyStr(DEFAULT_TIDE_ID)]

\* The endpoint SERVICE_DEFINITIONS lists for the service: "/chat" for chat.
_get_endpoint_listed(service) == IF service = "chat" THEN "/chat" ELSE "/coordinator"

\* AgentClient._get_endpoint
_get_endpoint(service) == "/coordinator"

\* A payload builder that passes a supplied timeframe through unchanged for
\* every service.
_build_payload_passthrough(service, api_key, tide_id, kwargs) ==
    Return(PyDict(<<KV("api_key", api_key), KV("tides_id", tide_id),
                    KV("service", PyStr(service))>>
                  \o (IF HasKey(kwargs, "timeframe")
                      THEN <<KV("timeframe", GetKey(kwargs, "timeframe"))>>
                      ELSE <<>>)))

\* _build_payload without its two raise statements: a missing r2_path is sent
\* as None and a service outside the known set gets the base payload.
_build_payload_lenient(service, api_key, tide_id, kwargs) ==
    IF service = "r2-test"
    THEN Return(PyDict(<<KV("r2_test_path",
                            IF HasKey(kwargs, "r2_path")
                            THEN GetKey(kwargs, "r2_path") ELSE PyNone)>>))
    ELSE Return(PyDict(<<KV("api_key", api_key), KV("tides_id", tide_id),
                         KV("service", PyStr(service))>>))

\* AgentClient._build_payload; kwargs is a dict
_build_payload(service, api_key, tide_id, kwargs) ==
    LET base_payload == PyDict(<<KV("api_key", api_key), KV("tides_id", tide_id)>>)
        named == SetKey(base_payload, "service", PyStr(service))
    IN CASE service = "r2-test" ->
                IF ~HasKey(kwargs, "r2_path")
                THEN Raise("ValueError", "r2_path is required for r2-test service")
                ELSE Return(PyDict(<<KV("r2_test_path", GetKey(kwargs, "r2_path"))>>))
         [] service = "insights" ->
                Return(IF HasKey(kwargs, "timeframe")
                       THEN SetKey(named, "timeframe", GetKey(kwargs, "timeframe"))
                       ELSE named)
         [] service = "optimize" ->
                Return(IF HasKey(kwargs, "timeframe")
                       THEN SetKey(named, "preferences",
                                   PyDict(<<KV("focus_time_blocks", PyNum(90))>>))
                       ELSE named)
         [] service = "questions" ->
                Return(SetKey(named, "question",
                              IF HasKey(kwargs, "question")
                              THEN GetKey(kwargs, "question")
                              ELSE PyStr("How can I improve my productivity?")))
         [] service = "preferences" -> Return(named)
         [] service = "reports" ->
                LET payload == SetKey(named, "report_type", PyStr("summary"))
                IN Return(IF HasKey(kwargs, "timeframe")
                          THEN SetKey(payload, "period", GetKey(kwargs, "timeframe"))
                          ELSE payload)
         [] service = "chat" ->
                Return(SetKey(named, "message",
                              IF HasKey(kwargs, "message")
                              THEN GetKey(kwargs, "message")
                              ELSE PyStr("How productive was I today?")))
         [] OTHER -> Raise("ValueError", "Unknown service: " \o service)

JsonHeaders == PyDict(<<KV("Content-Type", PyStr("application/json"))>>)

\* The non-200 value with the body cut the way chat cuts its excerpts.
call_service_http_error_excerpt(b) ==
    PyDict(<<KV("error", PyStr("HTTP " \o ToString(b.status))),
             KV("details", PyStr(SliceTo(b.text, 200)))>>)

\* call_service, the value returned for a status other than 200
call_service_http_error(b) ==
    PyDict(<<KV("error", PyStr("HTTP " \o ToString(b.status))),
             KV("details", PyStr(b.text))>>)

\* The response handling with the decoded body wrapped in an envelope.
enveloped(decoded) ==
    IF Raised(decoded) THEN decoded
    ELSE Return(PyDict(<<KV("success", PyBool(TRUE)), KV("data", decoded.v)>>))

call_service_response_wrapped(b) ==
    IF b.status = 200 THEN enveloped(ResponseJson(b))
    ELSE Return(PyDict(<<KV("error", PyStr("HTTP " \o ToString(b.status))),
                         KV("details", PyStr(b.text))>>))

\* call_service, what is made of the response
call_service_response(b) ==
    IF b.status = 200 THEN ResponseJson(b) ELSE Return(call_service_http_error(b))

\* call_service, the try statement from the built payload on
call_service_send(self, service, payload, b) ==
    IF Raised(payload) THEN Did(payload, <<>>)
    ELSE Did(Posted(b, call_service_response(b)),
             <<Request(self.base_url \o _get_endpoint(service),
                       payload.v, JsonHeaders, self.timeout)>>)

\* The try statement building the payload with the client's own tide id,
\* ignoring the tide id the caller passed.
call_service_try_own_tide(self, service, api_key, actual_tide_id, kwargs, b) ==
    call_service_send(self, service,
                      _build_payload(service, api_key, self.tides_id, kwargs), b)

\* call_service, the body of the try statement
call_service_try(self, service, api_key, actual_tide_id, kwargs, b) ==
    call_service_send(self, service,
                      _build_payload(service, api_key, actual_tide_id, kwargs), b)

\* call_service, the except clause: except Exception as e
call_service_except(tried) ==
    IF Raised(tried.out)
    THEN Did(Return(PyDict(<<KV("error", PyStr("Request failed")),
                             KV("details", PyStr(tried.out.e.msg))>>)),
             tried.sent)
    ELSE tried

\* call_service without the api key check of its first statement.
call_service_unguarded(self, service, api_key, tide_id, kwargs, b) ==
    call_service_except(
        call_service_try(self, service, api_key,
                         IF Truthy(tide_id) THEN tide_id ELSE self.tides_id,
                         kwargs, b))

\* AgentClient.call_service
call_service(self, service, api_key, tide_id, kwargs, b) ==
    IF ~Truthy(api_key)
    THEN Did(Return(
             PyDict(<<KV("error", PyStr("API key required")),
                      KV("details", PyStr("Please provide an API key for authentication"))>>)), <<>>)
    ELSE call_service_except(
             call_service_try(self, service, api_key,
                              IF Truthy(tide_id) THEN tide_id ELSE self.tides_id,
                              kwargs, b))

-----------------------------------------------------------------------------
(* AgentClient.chat and its formatters.  The non-ASCII characters of the  *)
(* source's string literals are written <U+XXXX>, one per code point.     *)

AGENT_CROSS == "<U+00E2><U+0152>"
AGENT_ROBOT == "<U+00F0><U+0178><U+00A4><U+2013>"
CHAT_EXCERPT_CHARS == 200
SHOWN_RECOMMENDATIONS == 5

\* for area in ...: response += f"<bullet> {area}\n"
RECURSIVE BulletLines(_, _)
BulletLines(items, i) ==
    IF i > Len(items) THEN ""
    ELSE "<U+00E2><U+20AC><U+00A2>" \o " " \o PyToStr(items[i]) \o "\n" \o BulletLines(items, i + 1)

\* for i, rec in enumerate(..., 1): response += f"{i}. {rec}\n"
RECURSIVE NumberedLines(_, _)
NumberedLines(items, i) ==
    IF i > Len(items) THEN ""
    ELSE ToString(i) \o ". " \o PyToStr(items[i]) \o "\n" \o NumberedLines(items, i + 1)

Numbered(iter) == IF Raised(iter) THEN iter ELSE Text(NumberedLines(iter.v.v, 1))

\* f"{x.get(key, 'N/A')}" for a looked-up value
Shown(got) == IF Raised(got) THEN got ELSE Text(PyToStr(got.v))

\* _format_insights_response: if "improvement_areas" in trends
insights_areas(trends) ==
    IF HasKey(trends, "improvement_areas")
    THEN Concat(Text("**Areas for Improvement:**\n"),
         Concat(IF Raised(PyIter(GetKey(trends, "improvement_areas")))
                THEN PyIter(GetKey(trends, "improvement_areas"))
                ELSE Text(BulletLines(PyIter(GetKey(trends, "improvement_areas")).v.v, 1)),
                Text("\n")))
    ELSE Text("")

\* _format_insights_response: if "trends" in data
insights_trends(trends) ==
    Concat(Text("**Daily Average:** "),
    Concat(Shown(PyGet(trends, "daily_average", PyStr("N/A"))),
    Concat(Text("\n"),
           IF IsDict(trends) THEN insights_areas(trends) ELSE Text(""))))

\* if "recommendations" in data, in the insights and optimize formatters
recommendations_block(data) ==
    IF HasKey(data, "recommendations")
    THEN Concat(Text("**Recommendations:**\n"),
                Numbered(PyIter(GetKey(data, "recommendations"))))
    ELSE Text("")

\* AgentClient._format_insights_response
_format_insights_response(data) ==
    Concat(Text("<U+00F0><U+0178><U+201C><U+0160>" \o " **Productivity Insights**\n\n"),
    Concat(Text("**Overall Score:** "),
    Concat(Shown(PyGet(data, "productivity_score", PyStr("N/A"))),
    Concat(Text("/100\n\n"),
    Concat(IF HasKey(data, "trends") THEN insights_trends(GetKey(data, "trends"))
           ELSE Text(""),
           recommendations_block(data))))))

\* AgentClient._format_optimize_response
_format_optimize_response(data) ==
    Concat(Text("<U+00E2><U+0161><U+00A1>" \o " **Schedule Optimization**\n\n"),
           recommendations_block(data))

\* response += summary: str + str only
AddStr(summary) ==
    IF summary.t = "str" THEN Text(summary.v)
    ELSE Raise("TypeError", "can only concatenate str (not \""
                            \o TypeName(summary) \o "\") to str")

\* AgentClient._format_reports_response
_format_reports_response(data) ==
    Concat(Text("<U+00F0><U+0178><U+201C><U+2039>" \o " **Report Summary**\n\n"),
           AddStr(IF HasKey(data, "summary") THEN GetKey(data, "summary")
                  ELSE PyStr("No summary available")))

\* f"...{data[key]}..." behind if key in data
field_line(data, key, has, before, after) ==
    IF Raised(has) THEN has
    ELSE IF has.v.v
    THEN Concat(Text(before), Concat(Shown(PyGetItem(data, key)), Text(after)))
    ELSE Text("")

\* _format_structured_response: if len(data["recommendations"]) > 5
more_line(count) ==
    IF Raised(count) THEN count
    ELSE IF count.v.v > SHOWN_RECOMMENDATIONS
    THEN Text("... and " \o ToString(count.v.v - SHOWN_RECOMMENDATIONS) \o " more\n")
    ELSE Text("")

\* _format_structured_response: recs = data["recommendations"][:5] and the loop
shown_recommendations(recs) ==
    IF Raised(recs) THEN recs
    ELSE Numbered(IF Raised(PySliceTo(recs.v, SHOWN_RECOMMENDATIONS))
                  THEN PySliceTo(recs.v, SHOWN_RECOMMENDATIONS)
                  ELSE PyIter(PySliceTo(recs.v, SHOWN_RECOMMENDATIONS).v))

counted_recommendations(recs) ==
    IF Raised(recs) THEN recs ELSE more_line(PyLen(recs.v))

\* _format_structured_response: if "recommendations" in data
structured_recommendations(data, has) ==
    IF Raised(has) THEN has
    ELSE IF has.v.v
    THEN Concat(Text("**Recommendations:**\n"),
         Concat(shown_recommendations(PyGetItem(data, "recommendations")),
                counted_recommendations(PyGetItem(data, "recommendations"))))
    ELSE Text("")

\* AgentClient._format_structured_response
_format_structured_response(data, service) ==
    Concat(Text(AGENT_ROBOT \o " **"),
    Concat(PyTitle(service),
    Concat(Text(" Service Response**\n\n"),
    Concat(field_line(data, "productivity_score", PyIn("productivity_score", data),
                      "**Productivity Score:** ", "/100\n"),
    Concat(structured_recommendations(data, PyIn("recommendations", data)),
    Concat(field_line(data, "message", PyIn("message", data),
                      "\n**Message:** ", "\n"),
           field_line(data, "answer", PyIn("answer", data),
                      "\n**Answer:** ", "\n")))))))

\* chat: the branches on the service and on data's fields
chat_on_service(data, service) ==
    IF Raised(service) THEN service
    ELSE IF (service.v.t = "str" /\ service.v.v = "insights") /\ HasKey(data, "productivity_score")
    THEN _format_insights_response(data)
    ELSE IF (service.v.t = "str" /\ service.v.v = "optimize") /\ HasKey(data, "recommendations")
    THEN _format_optimize_response(data)
    ELSE IF (service.v.t = "str" /\ service.v.v = "reports") /\ HasKey(data, "summary")
    THEN _format_reports_response(data)
    ELSE IF HasKey(data, "message") THEN Return(GetKey(data, "message"))
    ELSE IF HasKey(data, "response") THEN Return(GetKey(data, "response"))
    ELSE IF HasKey(data, "answer") THEN Return(GetKey(data, "answer"))
    ELSE _format_structured_response(data, service.v)

\* chat: service = result.get("metadata", {}).get("service", "unknown")
chat_service(result) ==
    PyGet(IF HasKey(result, "metadata") THEN GetKey(result, "metadata")
          ELSE PyDict(<<>>),
          "service", PyStr("unknown"))

\* chat: the direct response fields, the success fallback and the excerpt
chat_direct(result) ==
    IF HasKey(result, "response") THEN Return(GetKey(result, "response"))
    ELSE IF HasKey(result, "message") THEN Return(GetKey(result, "message"))
    ELSE IF HasKey(result, "text") THEN Return(GetKey(result, "text"))
    ELSE IF HasKey(result, "content") THEN Return(GetKey(result, "content"))
    ELSE IF HasKey(result, "success") /\ Truthy(GetKey(result, "success"))
            /\ HasKey(result, "data")
    THEN _format_structured_response(GetKey(result, "data"), PyStr("unknown"))
    ELSE Text(AGENT_ROBOT \o " Unexpected response format: "
              \o SliceTo(PyToStr(result), CHAT_EXCERPT_CHARS) \o "...")

\* chat: what is made of the decoded body of a 200 reply
chat_on_result(result) ==
    IF Raised(result) THEN result
    ELSE IF ~IsDict(result.v) THEN Text(PyToStr(result.v))
    ELSE IF HasKey(result.v, "data") /\ IsDict(GetKey(result.v, "data"))
    THEN chat_on_service(GetKey(result.v, "data"), chat_service(result.v))
    ELSE chat_direct(result.v)

\* chat: what is made of the response
chat_response(b) ==
    IF b.status = 200 THEN chat_on_result(ResponseJson(b))
    ELSE Text(AGENT_CROSS \o " Agent error (" \o ToString(b.status) \o "): "
              \o SliceTo(b.text, CHAT_EXCERPT_CHARS))

\* chat: the request body
chat_payload(message, api_key, user_id, actual_tide_id, now) ==
    PyDict(<<KV("message", message),
             KV("userId", IF Truthy(user_id) THEN user_id ELSE PyStr("demo_user")),
             KV("api_key", api_key),
             KV("tides_id", actual_tide_id),
             KV("timestamp", PyStr(now))>>)

\* chat, the body of the try statement
chat_try(self, message, api_key, user_id, actual_tide_id, now, b) ==
    Did(Posted(b, chat_response(b)),
        <<Request(self.base_url \o "/coordinator",
                  chat_payload(message, api_key, user_id, actual_tide_id, now),
                  JsonHeaders, self.timeout)>>)

\* An except clause that posts the request a second time before giving up.
chat_except_retry(tried) ==
    IF Raised(tried.out)
    THEN Did(Text(AGENT_CROSS \o " Connection failed: " \o tried.out.e.msg),
             tried.sent \o tried.sent)
    ELSE tried

\* chat, the except clause: except Exception as e
chat_except(tried) ==
    IF Raised(tried.out)
    THEN Did(Text(AGENT_CROSS \o " Connection failed: " \o tried.out.e.msg), tried.sent)
    ELSE tried

\* AgentClient.chat; now is datetime.now().isoformat()
chat(self, message, api_key, user_id, tide_id, now, b) ==
    IF ~Truthy(api_key)
    THEN Did(Text(AGENT_CROSS \o " API key required for chat"), <<>>)
    ELSE chat_except(
             chat_try(self, message, api_key, user_id,
                      IF Truthy(tide_id) THEN tide_id ELSE self.tides_id, now, b))

\* AgentClient.test_connection
test_connection(self, api_key, now, b) ==
    IF ~Truthy(api_key)
    THEN Did(Text(AGENT_CROSS \o " API key required for connection test"), <<>>)
    ELSE chat(self, PyStr("ping"), api_key, PyNone, PyNone, now, b)

-----------------------------------------------------------------------------
(* MCPClient                                                              *)

MCP_BASE_URL == "https://tides-006.mpazbot.workers.dev/mcp"
MCP_TIMEOUT == 30
RAW_RESPONSE_CHARS == 500
INVALID_JSON_CHARS == 200

\* MCPClient.__init__
MCPClient(environment) == [environment |-> environment, base_url |-> MCP_BASE_URL]

ToolError(tool_name, error) ==
    PyDict(<<KV("status", PyStr("error")), KV("error", error),
             KV("tool", PyStr(tool_name))>>)

ToolSuccess(tool_name, result) ==
    PyDict(<<KV("status", PyStr("success")), KV("result", result),
             KV("tool", PyStr(tool_name))>>)

\* execute_tool, one line of an event stream: the event it adds to events, if any
\* (except json.JSONDecodeError: pass)
EventsOfLine(line) ==
    IF StartsWith(line, "data: ") /\ ~Raised(JsonLoads(SliceFrom(line, 6)))
    THEN <<JsonLoads(SliceFrom(line, 6)).v>>
    ELSE <<>>

\* execute_tool, the loop over the lines of an event stream: the events decoded
\* from lines[i..], in order.
RECURSIVE StreamEvents(_, _)
StreamEvents(lines, i) ==
    IF i > Len(lines) THEN <<>>
    ELSE EventsOfLine(lines[i]) \o StreamEvents(lines, i + 1)

\* The first decoded event instead of the last: events[0]
first_event(events) == events[1]

\* execute_tool, the event chosen among the decoded ones: events[-1]
last_event(events) == events[Len(events)]

\* execute_tool, the value returned when the stream decides nothing
no_valid_events(tool_name, text) ==
    SetKey(ToolError(tool_name, PyStr("No valid events in stream")),
           "raw_response", PyStr(SliceTo(text, RAW_RESPONSE_CHARS)))

\* A successful result handed on without its status.
success_with_no_status(tool_name, r) ==
    IF Raised(r) THEN r
    ELSE Return(PyDict(<<KV("result", r.v), KV("tool", PyStr(tool_name))>>))

\* A successful or failed tool result from a looked-up field; a failed lookup
\* propagates its exception.
success_with(tool_name, r) ==
    IF Raised(r) THEN r ELSE Return(ToolSuccess(tool_name, r.v))
error_with(tool_name, r) ==
    IF Raised(r) THEN r ELSE Return(ToolError(tool_name, r.v))

\* execute_tool, event stream: elif "error" in last_event
stream_on_error(tool_name, text, ev, has_error) ==
    IF Raised(has_error) THEN has_error
    ELSE IF has_error.v.v THEN error_with(tool_name, PyGetItem(ev, "error"))
    ELSE Return(no_valid_events(tool_name, text))

\* The event stream decision looking for an error before a result, the order
\* of the plain JSON branch.
stream_on_result_error_first(tool_name, text, ev, has_result) ==
    IF Raised(has_result) THEN has_result
    ELSE IF PyIn("error", ev).v.v THEN error_with(tool_name, PyGetItem(ev, "error"))
    ELSE IF has_result.v.v THEN success_with(tool_name, PyGetItem(ev, "result"))
    ELSE Return(no_valid_events(tool_name, text))

\* execute_tool, event stream: if "result" in last_event
stream_on_result(tool_name, text, ev, has_result) ==
    IF Raised(has_result) THEN has_result
    ELSE IF has_result.v.v THEN success_with(tool_name, PyGetItem(ev, "result"))
    ELSE stream_on_error(tool_name, text, ev, PyIn("error", ev))

\* execute_tool, event stream: if events
stream_on_events(tool_name, text, events) ==
    IF events = <<>> THEN Return(no_valid_events(tool_name, text))
    ELSE stream_on_result(tool_name, text, last_event(events),
                          PyIn("result", last_event(events)))

\* execute_tool, the text/event-stream branch
execute_tool_stream(tool_name, text) ==
    stream_on_events(tool_name, text, StreamEvents(Split(Strip(text), "\n"), 1))

\* The plain JSON decision reading the result by subscript: result["result"]
json_on_error_subscript(tool_name, result, has_error) ==
    IF Raised(has_error) THEN has_error
    ELSE IF has_error.v.v THEN error_with(tool_name, PyGetItem(result, "error"))
    ELSE success_with(tool_name, PyGetItem(result, "result"))

\* execute_tool, plain JSON: if "error" in result ... else result.get("result")
json_on_error(tool_name, result, has_error) ==
    IF Raised(has_error) THEN has_error
    ELSE IF has_error.v.v THEN error_with(tool_name, PyGetItem(result, "error"))
    ELSE success_with(tool_name, PyGet(result, "result", PyNone))

\* The plain JSON branch without its inner except clause: the decode error
\* reaches the outer except clause.
json_on_decoded_uncaught(tool_name, text, result) ==
    IF Raised(result) THEN result
    ELSE json_on_error(tool_name, result.v, PyIn("error", result.v))

\* execute_tool, plain JSON: the inner try / except json.JSONDecodeError
json_on_decoded(tool_name, text, result) ==
    IF Raised(result)
    THEN Return(ToolError(tool_name,
             PyStr("Invalid JSON response: " \o SliceTo(text, INVALID_JSON_CHARS))))
    ELSE json_on_error(tool_name, result.v, PyIn("error", result.v))

\* execute_tool, the branch for any other content type
execute_tool_json(tool_name, b) == json_on_decoded(tool_name, b.text, ResponseJson(b))

\* The dispatch looking at the content type before the status.
execute_tool_response_by_type(tool_name, b) ==
    IF Contains(b.ctype, "text/event-stream")
    THEN execute_tool_stream(tool_name, b.text)
    ELSE IF b.status = 200 THEN execute_tool_json(tool_name, b)
    ELSE Return(ToolError(tool_name,
             PyStr("HTTP " \o ToString(b.status) \o ": " \o b.text)))

\* execute_tool, the status and content-type dispatch on a response
execute_tool_response(tool_name, b) ==
    IF b.status = 200
    THEN IF Contains(b.ctype, "text/event-stream")
         THEN execute_tool_stream(tool_name, b.text)
         ELSE execute_tool_json(tool_name, b)
    ELSE Return(ToolError(tool_name,
             PyStr("HTTP " \o ToString(b.status) \o ": " \o b.text)))

\* execute_tool, the body of the try statement: the JSON-RPC 2.0 request body
\* and the headers of the POST, then what is made of the response
execute_tool_try(self, tool_name, parameters, api_key, b) ==
    Did(Posted(b, execute_tool_response(tool_name, b)),
        <<Request(self.base_url,
              PyDict(<<KV("jsonrpc", PyStr("2.0")),
                       KV("id", PyNum(1)),
                       KV("method", PyStr("tools/call")),
                       KV("params", PyDict(<<KV("name", PyStr(tool_name)),
                                             KV("arguments", parameters)>>))>>),
              PyDict(<<KV("Content-Type", PyStr("application/json")),
                       KV("Accept", PyStr("application/json, text/event-stream")),
                       KV("Authorization", PyStr("Bearer " \o PyToStr(api_key)))>>),
              MCP_TIMEOUT)>>)

\* An except clause that catches nothing: the exception leaves execute_tool.
execute_tool_uncaught(tool_name, tried) == tried

\* execute_tool, the except clause: except Exception as e
execute_tool_except(tool_name, tried) ==
    IF Raised(tried.out)
    THEN Did(Return(ToolError(tool_name,
                 PyStr("Request failed: " \o tried.out.e.msg))), tried.sent)
    ELSE tried

\* execute_tool without the api key check of its first statement.
execute_tool_unguarded(self, tool_name, parameters, api_key, b) ==
    execute_tool_except(tool_name,
        execute_tool_try(self, tool_name,
            IF parameters.t = "null" THEN PyDict(<<>>) ELSE parameters,
            api_key, b))

\* MCPClient.execute_tool
execute_tool(self, tool_name, parameters, api_key, b) ==
    IF ~Truthy(api_key)
    THEN Did(Return(ToolError(tool_name,
                 PyStr("API key required for MCP tool execution"))), <<>>)
    ELSE execute_tool_except(tool_name,
             execute_tool_try(self, tool_name,
                 IF parameters.t = "null" THEN PyDict(<<>>) ELSE parameters,
                 api_key, b))

\* _execute_mcp_tool, the branch taken on the value execute_tool returned:
\* result.get("status") == "success", == "error", or neither.
_execute_mcp_tool(result) ==
    IF result.t # "obj" THEN "raises"
    ELSE IF ~HasKey(result, "status") \/ GetKey(result, "status").t # "str"
         THEN "unexpected"
    ELSE IF GetKey(result, "status").v = "success" THEN "success"
    ELSE IF GetKey(result, "status").v = "error" THEN "error"
    ELSE "unexpected"

-----------------------------------------------------------------------------
(* The presentation layer: st.session_state is a dict; a handler returns   *)
(* the session state it leaves and the requests it issued.  Widgets        *)
(* (st.write, st.json, st.metric, ...) display their argument and do not   *)
(* raise; st.rerun() ends the handler.                                     *)

\* config.DEFAULT_API_KEY: a non-empty key
DEFAULT_API_KEY == "tides_testuser_001"

\* if key not in st.session_state: st.session_state[key] = val
SetDefault(state, key, val) == IF HasKey(state, key) THEN state ELSE SetKey(state, key, val)

\* initialize_session_state
initialize_session_state(state) ==
    SetDefault(SetDefault(SetDefault(SetDefault(SetDefault(state,
        "messages", PyList(<<>>)),
        "environment", PyStr("Stable Testing")),
        "api_key", PyStr(DEFAULT_API_KEY)),
        "user_id", PyStr("demo_user")),
        "auth_token", PyNone)

\* render_monitoring_tab, the metrics row:
\* env_name = st.session_state.environment.split(" - ")[1]
render_monitoring_tab(state) ==
    IF Len(Split(GetKey(state, "environment").v, " - ")) < 2
    THEN Raise("IndexError", "list index out of range")
    ELSE Return(PyNone)

\* What a handler did: the session state it leaves, the requests it issued,
\* the call_service invocations it made and how it ended.
Handled(state, sent, calls, out) ==
    [state |-> state, sent |-> sent, calls |-> calls, out |-> out]

\* _process_chat_message: the assistant message appended to the history
assistant_message(content, raw_response, elapsed, status_code) ==
    PyDict(<<KV("role", PyStr("assistant")),
             KV("content", content),
             KV("raw_response", raw_response),
             KV("processing_time_ms", elapsed),
             KV("status_code", status_code)>>)

\* _process_chat_message, status 200: the message stored once agent_client.chat
\* has returned formatted_response
chat_message_formatted(full_response, elapsed, formatted) ==
    Did(IF Raised(formatted.out) THEN formatted.out
        ELSE Return(assistant_message(formatted.out.v, full_response, elapsed,
                                      PyNum(200))),
        formatted.sent)

\* The response handling formatting the reply it already has: no second
\* request is made for a new one.
chat_message_response_once(self, prompt, api_key, user_id, tide_id, now, elapsed, b1, b2) ==
    IF b1.status = 200
    THEN IF Raised(ResponseJson(b1)) THEN Did(ResponseJson(b1), <<>>)
         ELSE chat_message_formatted(ResponseJson(b1).v, elapsed,
                  Did(chat(self, PyStr(prompt), api_key, user_id, tide_id, now, b1).out,
                      <<>>))
    ELSE Did(Return(assistant_message(
                 PyStr("<U+274C> Agent error (" \o ToString(b1.status) \o "): "
                       \o SliceTo(b1.text, 200)),
                 PyDict(<<KV("error", PyStr(b1.text)),
                          KV("status_code", PyNum(b1.status))>>),
                 elapsed, PyNum(b1.status))),
             <<>>)

\* _process_chat_message: what is made of the response to the direct request
chat_message_response(self, prompt, api_key, user_id, tide_id, now, elapsed, b1, b2) ==
    IF b1.status = 200
    THEN IF Raised(ResponseJson(b1)) THEN Did(ResponseJson(b1), <<>>)
         ELSE chat_message_formatted(ResponseJson(b1).v, elapsed,
                  chat(self, PyStr(prompt), api_key, user_id, tide_id, now, b2))
    ELSE Did(Return(assistant_message(
                 PyStr("<U+274C> Agent error (" \o ToString(b1.status) \o "): "
                       \o SliceTo(b1.text, 200)),
                 PyDict(<<KV("error", PyStr(b1.text)),
                          KV("status_code", PyNum(b1.status))>>),
                 elapsed, PyNum(b1.status))),
             <<>>)

\* _process_chat_message, the body of the try statement: the direct request
\* (its payload has the fields and the userId default of chat's payload) and
\* what follows it
chat_message_try(self, prompt, api_key, user_id, tide_id, now, elapsed, b1, handled) ==
    Did(Posted(b1, handled.out),
        <<Request(self.base_url \o "/coordinator",
                  chat_payload(PyStr(prompt), api_key, user_id, tide_id, now),
                  JsonHeaders, self.timeout)>>
        \o (IF b1.k = "raise" THEN <<>> ELSE handled.sent))

\* The appends with the exception left uncaught: after a failure only the
\* user message is in the history.
chat_message_append_uncaught(state, prompt, elapsed, tried) ==
    Handled(
        SetKey(state, "messages",
            PyList(GetKey(state, "messages").v \o
                <<PyDict(<<KV("role", PyStr("user")), KV("content", PyStr(prompt))>>)>>
                \o (IF Raised(tried.out) THEN <<>> ELSE <<tried.out.v>>))),
        tried.sent, <<>>, Return(PyNone))

\* _process_chat_message, the appends: the user message first, then the
\* assistant message of the branch taken; except Exception as e stores the
\* failure text
chat_message_append(state, prompt, elapsed, tried) ==
    Handled(
        SetKey(state, "messages",
            PyList(GetKey(state, "messages").v \o
                <<PyDict(<<KV("role", PyStr("user")), KV("content", PyStr(prompt))>>),
                  IF Raised(tried.out)
                  THEN assistant_message(
                           PyStr("<U+274C> Connection failed: " \o tried.out.e.msg),
                           PyDict(<<KV("error", PyStr(tried.out.e.msg))>>),
                           elapsed, PyNone)
                  ELSE tried.out.v>>)),
        tried.sent, <<>>, Return(PyNone))

\* _process_chat_message(prompt, agent_client, api_key, tide_id): b1 answers
\* the direct request, b2 the request agent_client.chat makes
_process_chat_message(state, self, prompt, api_key, tide_id, now, elapsed, b1, b2) ==
    chat_message_append(state, prompt, elapsed,
        chat_message_try(self, prompt, api_key, GetKey(state, "user_id"),
                         tide_id, now, elapsed, b1,
            chat_message_response(self, prompt, api_key, GetKey(state, "user_id"),
                                  tide_id, now, elapsed, b1, b2)))

\* The error branch of a displayed result: result['error'], and
\* result["details"] if "details" in result (result is a container here)
error_shown(result) ==
    IF Raised(PyGetItem(result, "error")) THEN PyGetItem(result, "error")
    ELSE IF PyIn("details", result).v.v /\ Raised(PyGetItem(result, "details"))
    THEN PyGetItem(result, "details")
    ELSE Return(PyNone)

\* _render_test_results: how the display of st.session_state.last_test_result ends
_render_test_results(state) ==
    IF ~HasKey(state, "last_test_result") THEN Return(PyNone)
    ELSE IF Raised(PyIn("error", GetKey(GetKey(state, "last_test_result"), "result")))
    THEN PyIn("error", GetKey(GetKey(state, "last_test_result"), "result"))
    ELSE IF Len(Split(GetKey(GetKey(state, "last_test_result"), "environment").v,
                      " - ")) < 2
    THEN Raise("IndexError", "list index out of range")
    ELSE IF PyIn("error", GetKey(GetKey(state, "last_test_result"), "result")).v.v
    THEN error_shown(GetKey(GetKey(state, "last_test_result"), "result"))
    ELSE IF /\ PyIn("response", GetKey(GetKey(state, "last_test_result"), "result")).v.v
            /\ Raised(PyGetItem(GetKey(GetKey(state, "last_test_result"), "result"),
                                "response"))
    THEN PyGetItem(GetKey(GetKey(state, "last_test_result"), "result"), "response")
    ELSE IF /\ PyIn("metadata", GetKey(GetKey(state, "last_test_result"), "result")).v.v
            /\ Raised(PyGetItem(GetKey(GetKey(state, "last_test_result"), "result"),
                                "metadata"))
    THEN PyGetItem(GetKey(GetKey(state, "last_test_result"), "result"), "metadata")
    ELSE Return(PyNone)

\* _execute_single_test: the entry stored in st.session_state.last_test_result
\* once call_service has returned
_execute_single_test(state, self, service, params, tide_id, now, elapsed, called) ==
    Handled(
        IF Raised(called.out) THEN state
        ELSE SetKey(state, "last_test_result",
                 PyDict(<<KV("service", PyStr(service)),
                          KV("environment", PyStr(self.environment)),
                          KV("params", params),
                          KV("tide_id", tide_id),
                          KV("result", called.out.v),
                          KV("processing_time_ms", elapsed),
                          KV("timestamp", PyStr(now))>>)),
        called.sent, <<>>, called.out)

\* _execute_test_suite: the suite is marked as running with the api key and
\* the tide id of this render
_execute_test_suite(state, api_key, tide_id) ==
    SetKey(SetKey(SetKey(state, "running_suite", PyBool(TRUE)),
                  "suite_api_key", api_key),
           "suite_tide_id", tide_id)

\* _clear_test_results: del st.session_state[key] for the keys present
_clear_test_results(state) ==
    PyDict(SelectSeq(state.v,
                     LAMBDA kv : kv.k \notin {"last_test_result", "test_history"}))

\* _render_test_suite_runner: quick_tests
quick_tests ==
    <<[service |-> "insights", params |-> PyDict(<<KV("timeframe", PyStr("7d"))>>)],
      [service |-> "questions",
       params |-> PyDict(<<KV("question", PyStr("How can I be more productive?"))>>)],
      [service |-> "preferences", params |-> PyDict(<<>>)],
      [service |-> "chat",
       params |-> PyDict(<<KV("message", PyStr("Hello, how are you?"))>>)]>>

\* _render_test_suite_runner, a result without error whose data is shown:
\* data = result["data"]; for insights with a productivity_score the first two
\* recommendations are listed: data["recommendations"][:2]
suite_data_shown(service, data) ==
    IF Raised(data) THEN data
    ELSE IF /\ data.v.t = "obj"
            /\ service = "insights"
            /\ HasKey(data.v, "productivity_score")
            /\ HasKey(data.v, "recommendations")
            /\ Raised(PySliceTo(GetKey(data.v, "recommendations"), 2))
    THEN PySliceTo(GetKey(data.v, "recommendations"), 2)
    ELSE Return(PyNone)

\* _render_test_suite_runner, the display of one result: if "error" in result
\* ... else ... "data" in result ... elif "response" in result ... else
suite_result_shown(service, result) ==
    IF Raised(PyIn("error", result)) THEN PyIn("error", result)
    ELSE IF PyIn("error", result).v.v THEN error_shown(result)
    ELSE IF PyIn("data", result).v.v
    THEN suite_data_shown(service, PyGetItem(result, "data"))
    ELSE IF PyIn("response", result).v.v /\ Raised(PyGetItem(result, "response"))
    THEN PyGetItem(result, "response")
    ELSE Return(PyNone)

\* _render_test_suite_runner: the loop from quick test i on, bs[i] answering
\* its request; done is what the render did so far.  An exception ends the
\* render; after the last test running_suite is set to False.
RECURSIVE _render_test_suite_runner(_, _, _, _, _, _)
suite_called(self, api_key, tide_id, bs, i, done, called) ==
    IF Raised(called.out)
    THEN Handled(done.state, done.sent \o called.sent, done.calls, called.out)
    ELSE IF Raised(suite_result_shown(quick_tests[i].service, called.out.v))
    THEN Handled(done.state, done.sent \o called.sent,
                 Append(done.calls,
                        [service |-> quick_tests[i].service, api_key |-> api_key,
                         tide_id |-> tide_id, kwargs |-> quick_tests[i].params,
                         result |-> called.out.v]),
                 suite_result_shown(quick_tests[i].service, called.out.v))
    ELSE _render_test_suite_runner(self, api_key, tide_id, bs, i + 1,
             Handled(done.state, done.sent \o called.sent,
                     Append(done.calls,
                            [service |-> quick_tests[i].service, api_key |-> api_key,
                             tide_id |-> tide_id, kwargs |-> quick_tests[i].params,
                             result |-> called.out.v]),
                     done.out))

_render_test_suite_runner(self, api_key, tide_id, bs, i, done) ==
    IF i > Len(quick_tests)
    THEN Handled(SetKey(done.state, "running_suite", PyBool(FALSE)),
                 done.sent, done.calls, done.out)
    ELSE suite_called(self, api_key, tide_id, bs, i, done,
             call_service(self, quick_tests[i].service, api_key, tide_id,
                          quick_tests[i].params, bs[i]))

\* render_api_tests_tab from _render_test_results() on: the last result is
\* displayed, then the suite runs if st.session_state.get('running_suite', False)
render_api_tests_tab(self, api_key, tide_id, bs, done) ==
    IF Raised(done.out) THEN done
    ELSE IF Raised(_render_test_results(done.state))
    THEN Handled(done.state, done.sent, done.calls, _render_test_results(done.state))
    ELSE IF HasKey(done.state, "running_suite")
            /\ Truthy(GetKey(done.state, "running_suite"))
    THEN _render_test_suite_runner(self,
             IF HasKey(done.state, "suite_api_key")
             THEN GetKey(done.state, "suite_api_key") ELSE api_key,
             IF HasKey(done.state, "suite_tide_id")
             THEN GetKey(done.state, "suite_tide_id") ELSE tide_id,
             bs, 1, done)
    ELSE done

-----------------------------------------------------------------------------
(* Inputs: the arguments callers pass and the behaviours of the backends. *)

MaxLines == 2

Services ==
    {"insights", "optimize", "questions", "preferences", "reports", "chat",
     "r2-test", "unknown-service"}

ApiKeys == {PyNone, PyStr(""), PyStr("tides_testuser_001")}

TransportFailures ==
    {BackendRaises("ConnectionError", "Connection refused"),
     BackendRaises("Timeout", "Read timed out")}

RECURSIVE Repeat(_, _)
Repeat(s, n) == IF n = 0 THEN "" ELSE s \o Repeat(s, n - 1)

\* A text longer than every excerpt the clients cut.
LongText == "upstream failure " \o Repeat("0123456789", 52)

AgentBackends ==
    TransportFailures \cup
    {BackendReplies(200, "application/json", body) : body \in
        {"", "boom", "<html>Bad Gateway</html>", LongText,
         "{\"success\":true,\"data\":{\"message\":\"hi\"}}",
         "{\"data\":{\"message\":\"hi\",\"response\":\"r\",\"answer\":\"a\"},\"message\":\"top\"}",
         "{\"data\":{\"response\":\"r\",\"answer\":\"a\"}}",
         "{\"data\":{\"answer\":42},\"metadata\":{\"service\":\"questions\"}}",
         "{\"data\":{\"productivity_score\":82,\"trends\":{\"daily_average\":7,\"improvement_areas\":[\"focus\",\"sleep\"]},\"recommendations\":[\"rest\",\"plan\"]},\"metadata\":{\"service\":\"insights\"}}",
         "{\"data\":{\"productivity_score\":82,\"trends\":5},\"metadata\":{\"service\":\"insights\"}}",
         "{\"data\":{\"productivity_score\":82,\"message\":\"scored\"},\"metadata\":{\"service\":\"insights\"}}",
         "{\"data\":{\"recommendations\":[\"rest\"]},\"metadata\":{\"service\":\"optimize\"}}",
         "{\"data\":{\"recommendations\":3},\"metadata\":{\"service\":\"optimize\"}}",
         "{\"data\":{\"summary\":\"All good\"},\"metadata\":{\"service\":\"reports\"}}",
         "{\"data\":{\"summary\":7},\"metadata\":{\"service\":\"reports\"}}",
         "{\"data\":{\"recommendations\":[1,2,3,4,5,6,7],\"productivity_score\":9},\"metadata\":{\"service\":\"r2-test\"}}",
         "{\"data\":{\"x\":1},\"metadata\":{\"service\":7}}",
         "{\"data\":{\"x\":1},\"metadata\":null}",
         "{\"success\":true,\"data\":{\"message\":\"hi\"},\"metadata\":null}",
         "{\"data\":{\"message\":\"hi\"},\"response\":\"top\",\"metadata\":{}}",
         "{\"data\":{\"x\":1},\"metadata\":\"insights\"}",
         "{\"data\":{\"x\":1}}",
         "{\"success\":true,\"data\":\"a message\"}",
         "{\"success\":true,\"data\":5}",
         "{\"success\":true,\"data\":[\"answer\"]}",
         "{\"success\":false,\"data\":5}",
         "{\"error\":\"tide not found\"}",
         "{\"response\":\"pong\"}",
         "{\"content\":[1]}",
         "{}", "[1, 2]", "\"plain text\"", "7", "null", "true"}} \cup
    {BackendReplies(st, "application/json", body) :
        st \in {204, 500}, body \in {"", "boom", "{\"error\":\"down\"}", LongText}}

Timestamps == {"2025-09-07T09:30:00.000000"}


StreamLines ==
    {"data: {\"result\":{\"ok\":true}}",
     "data: {\"error\":\"tool failed\"}",
     "data: {\"result\":1,\"error\":2}",
     "data: {\"id\":1}",
     "data: 5",
     "data: \"no result\"",
     "data: [\"started\"]",
     "data: {bad",
     "event: message",
     "data:{\"result\":3}"}

\* The texts of at most n lines of StreamLines, joined by newlines.
RECURSIVE LinesUpTo(_)
LinesUpTo(n) ==
    IF n = 0 THEN {""}
    ELSE LET shorter == LinesUpTo(n - 1)
         IN shorter \cup StreamLines
                    \cup {t \o "\n" \o l : t \in shorter \ {""}, l \in StreamLines}

McpBackends ==
    TransportFailures \cup
    {BackendReplies(200, ct, body) :
        ct \in {"", "application/json", "text/event-stream; charset=utf-8"},
        body \in
            LinesUpTo(MaxLines) \cup
            {"event: message\ndata: {\"result\":{\"ok\":true},\"jsonrpc\":\"2.0\",\"id\":1}\n\n",
             "event: message\r\ndata: {\"error\":{\"code\":404}}\r\n\r\n",
             "  data: {\"result\":4}",
             "data: null",
             "data: [\"error\"]",
             ": " \o LongText,
             "data: {\"x\":\"" \o LongText \o "\"}",
             "{\"result\":{\"tides\":[]},\"jsonrpc\":\"2.0\",\"id\":1}",
             "{\"error\":{\"code\":401}}",
             "{\"result\":1,\"error\":2}",
             "{\"jsonrpc\":\"2.0\"}",
             "\"error\"", "[1]", "9", "not json " \o LongText}} \cup
    {BackendReplies(st, ct, body) :
        st \in {204, 500},
        ct \in {"", "application/json", "text/event-stream; charset=utf-8"},
        body \in {"", "boom", "data: {\"result\":1}", LongText}}

-----------------------------------------------------------------------------
(* State machine: one client invocation at a time (the presentation layer *)
(* is single-threaded and blocks on each call).                           *)

NoCall == [op |-> "none", args |-> <<>>, backend |-> BackendReplies(0, "", ""), out |-> Return(PyNone)]

\* The invocation is recorded in last and the requests it issued in net.
Invoked(op, args, b, did) ==
    /\ last' = [op |-> op, args |-> args, backend |-> b, out |-> did.out]
    /\ net' = did.sent
    /\ UNCHANGED <<earlier, session, ui>>

\* The returned value is one of the clients' failure values: an error dict of
\* call_service, a status "error" of execute_tool, a failure text of chat.
Failed(call) ==
    IF call.op = "execute_tool"
    THEN GetKey(call.out.v, "status").v = "error"
    ELSE IF call.op = "call_service"
    THEN IsDict(call.out.v) /\ HasKey(call.out.v, "error")
    ELSE call.out.v.t = "str" /\ StartsWith(call.out.v.v, AGENT_CROSS)

\* render_sidebar constructs the AgentClient, render_mcp_tools_tab the MCPClient;
\* main has initialized the session state.
Init ==
    /\ agent = AgentClient("102 - Staging", DEFAULT_TIMEOUT)
    /\ mcp = MCPClient("102 - Staging")
    /\ net = <<>>
    /\ last = NoCall
    /\ earlier = "none"
    /\ session = initialize_session_state(PyDict(<<>>))
    /\ ui = [op |-> "none", args |-> <<>>, calls |-> <<>>, out |-> Return(PyNone)]

\* A call_service that keeps the key it is given in self.api_key and falls
\* back on the kept key when it is given none.
CallService_remembers_key(service, api_key, tide_id, kwargs, b) ==
    /\ last.op = "none"
    /\ Invoked("call_service",
               [service |-> service, api_key |-> api_key,
                tide_id |-> tide_id, kwargs |-> kwargs], b,
               call_service(agent, service,
                            IF Truthy(api_key) THEN api_key ELSE agent.api_key,
                            tide_id, kwargs, b))
    /\ agent' = [agent EXCEPT !.api_key = IF Truthy(api_key) THEN api_key ELSE @]
    /\ UNCHANGED mcp

\* agent_client.call_service(service, api_key, tide_id=tide_id, **kwargs)
CallService(service, api_key, tide_id, kwargs, b) ==
    /\ last.op = "none"
    /\ Invoked("call_service",
               [service |-> service, api_key |-> api_key,
                tide_id |-> tide_id, kwargs |-> kwargs], b,
               call_service(agent, service, api_key, tide_id, kwargs, b))
    /\ UNCHANGED <<agent, mcp>>

\* mcp_client.execute_tool(tool_name, parameters, api_key)
ExecuteTool(tool_name, parameters, api_key, b) ==
    /\ last.op = "none"
    /\ Invoked("execute_tool",
               [tool_name |-> tool_name, parameters |-> parameters,
                api_key |-> api_key], b,
               execute_tool(mcp, tool_name, parameters, api_key, b))
    /\ UNCHANGED <<agent, mcp>>

\* A chat that stores the tide id it is given as the client's default.
Chat_stores_tide(message, api_key, user_id, tide_id, now, b) ==
    /\ last.op = "none"
    /\ Invoked("chat",
               [message |-> message, api_key |-> api_key, user_id |-> user_id,
                tide_id |-> tide_id, now |-> now], b,
               chat(agent, message, api_key, user_id, tide_id, now, b))
    /\ agent' = [agent EXCEPT !.tides_id = IF Truthy(tide_id) THEN tide_id ELSE @]
    /\ UNCHANGED mcp

\* agent_client.chat(message, api_key, user_id, tide_id)
Chat(message, api_key, user_id, tide_id, now, b) ==
    /\ last.op = "none"
    /\ Invoked("chat",
               [message |-> message, api_key |-> api_key, user_id |-> user_id,
                tide_id |-> tide_id, now |-> now], b,
               chat(agent, message, api_key, user_id, tide_id, now, b))
    /\ UNCHANGED <<agent, mcp>>

\* agent_client.test_connection(api_key)
TestConnection(api_key, now, b) ==
    /\ last.op = "none"
    /\ Invoked("test_connection", [api_key |-> api_key, now |-> now], b,
               test_connection(agent, api_key, now, b))
    /\ UNCHANGED <<agent, mcp>>

\* The caller has rendered the returned value and its handler returns.
HandlerReturns ==
    /\ last.op # "none"
    /\ last' = NoCall
    /\ net' = <<>>
    /\ earlier' = (IF Failed(last) THEN "failed" ELSE "returned")
    /\ UNCHANGED <<agent, mcp, session, ui>>

\* The clients are called one at a time: a call starts when none is in progress.
Next ==
    \/ /\ last.op = "none"
       /\ \E service \in Services, api_key \in ApiKeys,
             tide_id \in {PyNone, PyStr(""), PyStr("tide_1756412347954_wgq624k2ocf")},
             kwargs \in
                 {PyDict(<<>>),
                  PyDict(<<KV("timeframe", PyStr("7d"))>>),
                  PyDict(<<KV("question", PyStr("How can I be more productive?"))>>),
                  PyDict(<<KV("message", PyStr("Hello, how are you?"))>>),
                  PyDict(<<KV("r2_path", PyStr("users/u1/tides/t1.json"))>>),
                  PyDict(<<KV("timeframe", PyStr("30d")),
                           KV("r2_path", PyStr("users/u1/tides/t1.json"))>>)},
             b \in AgentBackends :
               CallService(service, api_key, tide_id, kwargs, b)
    \/ /\ last.op = "none"
       /\ \E message \in {PyStr("How productive was I today?")},
             api_key \in ApiKeys, user_id \in {PyNone, PyStr("demo_user")},
             tide_id \in {PyNone, PyStr(""), PyStr("tide_1756412347954_wgq624k2ocf")},
             now \in Timestamps, b \in AgentBackends :
               Chat(message, api_key, user_id, tide_id, now, b)
    \/ /\ last.op = "none"
       /\ \E api_key \in ApiKeys, now \in Timestamps, b \in AgentBackends :
               TestConnection(api_key, now, b)
    \/ /\ last.op = "none"
       /\ \E tool_name \in {"tide_list", "tide_create"},
             parameters \in {PyNone, PyDict(<<KV("title", PyStr("Morning focus"))>>)},
             api_key \in ApiKeys, b \in McpBackends :
               ExecuteTool(tool_name, parameters, api_key, b)
    \/ HandlerReturns

Spec == Init /\ [][Next]_vars

-----------------------------------------------------------------------------
(* The chat tab, the sidebar and the monitoring tab: one handler per step.  *)
(* Each script run starts with initialize_session_state and render_sidebar, *)
(* which constructs AgentClient("102 - Staging").                           *)

\* The number of chat messages processed before the history is cleared.
MaxMessages == 2

\* Answers of the coordinator to the presentation layer's requests.
UiBackends ==
    {BackendRaises("ConnectionError", "Connection refused"),
     BackendReplies(500, "text/plain", "boom"),
     BackendReplies(200, "text/html", "<html>Bad Gateway</html>"),
     BackendReplies(200, "application/json", "{\"success\":true,\"data\":{\"message\":\"hi\"}}"),
     BackendReplies(200, "application/json", "null")}

\* A handler has run: its effects on the session and the requests it issued.
UiHandled(op, args, handled) ==
    /\ session' = handled.state
    /\ net' = handled.sent
    /\ ui' = [op |-> op, args |-> args, calls |-> handled.calls, out |-> handled.out]
    /\ UNCHANGED <<agent, mcp, last, earlier>>

\* render_chat_tab: a question is sent from the form or the chat input; an
\* empty tide id field stands for "daily-tide-default".  replies are the
\* answers the handler got to see.
ProcessChatMessage(prompt, tide_text, now, elapsed, b1, b2) ==
    /\ Truthy(GetKey(session, "api_key"))
    /\ Len(GetKey(session, "messages").v) < 2 * MaxMessages
    /\ LET tide_id == IF Strip(tide_text) = "" THEN "daily-tide-default" ELSE tide_text
           handled == _process_chat_message(initialize_session_state(session),
                          AgentClient("102 - Staging", DEFAULT_TIMEOUT), prompt,
                          GetKey(session, "api_key"), PyStr(tide_id), now, elapsed,
                          b1, b2)
       IN UiHandled("_process_chat_message",
                    [prompt |-> prompt, tide_id |-> tide_id,
                     replies |-> SubSeq(<<b1, b2>>, 1, Len(handled.sent))],
                    handled)

\* The Clear Chat buttons of the chat tab and of the sidebar:
\* st.session_state.messages = []
ClearChat ==
    UiHandled("clear_chat", <<>>,
              Handled(SetKey(initialize_session_state(session), "messages",
                             PyList(<<>>)), <<>>, <<>>, Return(PyNone)))

\* The monitoring tab is rendered.
RenderMonitoringTab ==
    UiHandled("render_monitoring_tab", <<>>,
              Handled(initialize_session_state(session), <<>>, <<>>,
                      render_monitoring_tab(initialize_session_state(session))))

ChatTabNext ==
    \/ \E prompt \in {"How productive was I today?"},
          tide_text \in {"", "tide_1756412347954_wgq624k2ocf"},
          now \in Timestamps, elapsed \in {PyNum(120)},
          b1 \in UiBackends, b2 \in UiBackends :
            ProcessChatMessage(prompt, tide_text, now, elapsed, b1, b2)
    \/ ClearChat
    \/ RenderMonitoringTab

ChatTabSpec == Init /\ [][ChatTabNext]_vars

-----------------------------------------------------------------------------
(* The API tests tab: one script run per step, from the button pressed (if  *)
(* any) to the end of render_api_tests_tab.  tide_id is the text of the     *)
(* tab's tide id field; bs are the coordinator's answers to the quick       *)
(* tests.  suite records whether the suite was marked as running when the   *)
(* run began.                                                               *)

\* The session's suite mark: st.session_state.get('running_suite', False)
SuiteRunning ==
    HasKey(session, "running_suite") /\ Truthy(GetKey(session, "running_suite"))

\* "Test <service>" is pressed: _execute_single_test, then the rest of the tab.
SingleTest(service, params, tide_id, now, elapsed, b, bs) ==
    /\ Truthy(GetKey(session, "api_key"))
    /\ UiHandled("_execute_single_test",
                 [service |-> service, tide_id |-> tide_id, suite |-> SuiteRunning],
                 render_api_tests_tab(AgentClient("102 - Staging", DEFAULT_TIMEOUT),
                     GetKey(session, "api_key"), PyStr(tide_id), bs,
                     _execute_single_test(initialize_session_state(session),
                         AgentClient("102 - Staging", DEFAULT_TIMEOUT),
                         service, params, PyStr(tide_id), now, elapsed,
                         call_service(AgentClient("102 - Staging", DEFAULT_TIMEOUT),
                                      service, GetKey(session, "api_key"),
                                      PyStr(tide_id), params, b))))

\* "Quick Test Suite" is pressed: _execute_test_suite, which ends with st.rerun().
QuickTestSuite(tide_id) ==
    /\ Truthy(GetKey(session, "api_key"))
    /\ UiHandled("_execute_test_suite",
                 [tide_id |-> tide_id, suite |-> SuiteRunning],
                 Handled(_execute_test_suite(initialize_session_state(session),
                                             GetKey(session, "api_key"), PyStr(tide_id)),
                         <<>>, <<>>, Return(PyNone)))

\* "Clear Results" is pressed: _clear_test_results, which ends with st.rerun().
ClearResults ==
    /\ Truthy(GetKey(session, "api_key"))
    /\ UiHandled("_clear_test_results", [suite |-> SuiteRunning],
                 Handled(_clear_test_results(initialize_session_state(session)),
                         <<>>, <<>>, Return(PyNone)))

\* A script run with no button of the tab pressed, such as the one st.rerun()
\* starts.
RenderApiTestsTab(tide_id, bs) ==
    /\ Truthy(GetKey(session, "api_key"))
    /\ UiHandled("render_api_tests_tab",
                 [tide_id |-> tide_id, suite |-> SuiteRunning],
                 render_api_tests_tab(AgentClient("102 - Staging", DEFAULT_TIMEOUT),
                     GetKey(session, "api_key"), PyStr(tide_id), bs,
                     Handled(initialize_session_state(session), <<>>, <<>>,
                             Return(PyNone))))

\* The answers tried on the API tests tab: an error status, a mapping and a
\* JSON value that is no container.
ApiTestBackends ==
    {BackendReplies(500, "text/plain", "boom"),
     BackendReplies(200, "application/json", "{\"success\":true,\"data\":{\"message\":\"hi\"}}"),
     BackendReplies(200, "application/json", "null")}

ApiTestsNext ==
    \/ \E tide_id \in {"tide_1757218619970_gyrpyxie6bm"},
          now \in Timestamps, elapsed \in {PyNum(120)}, b \in ApiTestBackends,
          bs \in (IF SuiteRunning THEN [1..Len(quick_tests) -> ApiTestBackends]
                  ELSE {<<>>}) :
            SingleTest("insights", PyDict(<<KV("timeframe", PyStr("7d"))>>),
                       tide_id, now, elapsed, b, bs)
    \/ \E tide_id \in {"", "tide_1757218619970_gyrpyxie6bm"} : QuickTestSuite(tide_id)
    \/ ClearResults
    \/ \E tide_id \in {"tide_1757218619970_gyrpyxie6bm"},
          bs \in (IF SuiteRunning THEN [1..Len(quick_tests) -> ApiTestBackends]
                  ELSE {<<>>}) :
            RenderApiTestsTab(tide_id, bs)

ApiTestsSpec == Init /\ [][ApiTestsNext]_vars

-----------------------------------------------------------------------------
(* Properties of AgentClient.call_service                                 *)

\* C1: call_service called with an api_key that is None or empty issues no
\* network request and returns a value whose error is "API key required",
\* whatever the service name and the extra parameters.
C1_NoKeyNoRequest ==
    (last.op = "call_service" /\ (last.args.api_key.t = "null" \/ last.args.api_key.v = "")) =>
        /\ net = <<>>
        /\ last.out.k = "return"
        /\ IsDict(last.out.v)
        /\ HasKey(last.out.v, "error")
        /\ GetKey(last.out.v, "error") = PyStr("API key required")

C1_Witness ==
    /\ last.op = "call_service"
    /\ last.args.api_key = PyStr("")
    /\ last.args.service = "r2-test"
    /\ last.args.kwargs = PyDict(<<>>)
    /\ last.backend.k = "reply"
    /\ net = <<>>
    /\ last.out = Return(PyDict(<<KV("error", PyStr("API key required")),
                                  KV("details", PyStr("Please provide an API key for authentication"))>>))

\* C3: with a non-empty api_key, call_service("r2-test") without an r2_path
\* parameter, and call_service with a service name outside the known set,
\* return a value carrying an error and issue no network request.
C3_InvalidCallNoRequest ==
    (/\ last.op = "call_service"
     /\ last.args.api_key.t = "str" /\ last.args.api_key.v # ""
     /\ \/ last.args.service = "r2-test" /\ ~HasKey(last.args.kwargs, "r2_path")
        \/ last.args.service \notin {"insights", "optimize", "questions",
                                     "preferences", "reports", "chat", "r2-test"})
    => /\ net = <<>>
       /\ last.out.k = "return"
       /\ IsDict(last.out.v)
       /\ HasKey(last.out.v, "error")

C3_Witness ==
    /\ last.op = "call_service"
    /\ last.args.api_key = PyStr("tides_testuser_001")
    /\ last.args.service = "r2-test"
    /\ last.args.kwargs = PyDict(<<KV("timeframe", PyStr("7d"))>>)
    /\ last.backend = BackendReplies(200, "application/json", "{}")
    /\ net = <<>>
    /\ last.out.k = "return"
    /\ GetKey(last.out.v, "details") = PyStr("r2_path is required for r2-test service")

\* C4: the failure call_service returns for a validation problem (r2-test
\* without a path, a service name outside the known set) has a different
\* error kind than the failure it returns when the transport raises, so that
\* the error alone tells the two apart.
C4_ValidationKindDiffers ==
    (/\ last.op = "call_service"
     /\ last.args.api_key.t = "str" /\ last.args.api_key.v # ""
     /\ \/ last.args.service = "r2-test" /\ ~HasKey(last.args.kwargs, "r2_path")
        \/ last.args.service \notin {"insights", "optimize", "questions",
                                     "preferences", "reports", "chat", "r2-test"})
    => \A b \in TransportFailures :
           GetKey(last.out.v, "error") #
           GetKey(call_service(agent, "insights", last.args.api_key,
                               last.args.tide_id, PyDict(<<>>), b).out.v, "error")

\* C5: for insights, optimize, questions, preferences, reports and chat the
\* payload call_service sends carries api_key equal to the given key, tides_id
\* equal to the effective tide id (the given one, else the client's default)
\* and service equal to the service name; for r2-test with a path the payload
\* is the path field r2_test_path alone.
C5_PayloadFields ==
    (last.op = "call_service" /\ last.args.api_key.t = "str" /\ last.args.api_key.v # "") =>
        /\ (last.args.service \in {"insights", "optimize", "questions",
                                   "preferences", "reports", "chat"}) =>
               /\ Len(net) = 1
               /\ {"api_key", "tides_id", "service"} \subseteq Keys(net[1].json)
               /\ GetKey(net[1].json, "api_key") = last.args.api_key
               /\ GetKey(net[1].json, "tides_id") =
                      (IF (last.args.tide_id.t = "null" \/ last.args.tide_id.v = "")
                       THEN agent.tides_id ELSE last.args.tide_id)
               /\ GetKey(net[1].json, "service") = PyStr(last.args.service)
        /\ (last.args.service = "r2-test" /\ HasKey(last.args.kwargs, "r2_path")) =>
               /\ Len(net) = 1
               /\ net[1].json =
                      PyDict(<<KV("r2_test_path", GetKey(last.args.kwargs, "r2_path"))>>)

C5_Witness ==
    /\ last.op = "call_service"
    /\ last.args.service = "optimize"
    /\ last.args.api_key = PyStr("tides_testuser_001")
    /\ last.args.tide_id = PyStr("tide_1756412347954_wgq624k2ocf")
    /\ last.args.kwargs = PyDict(<<KV("timeframe", PyStr("7d"))>>)
    /\ Len(net) = 1
    /\ net[1].json =
          PyDict(<<KV("api_key", PyStr("tides_testuser_001")),
                   KV("tides_id", PyStr("tide_1756412347954_wgq624k2ocf")),
                   KV("service", PyStr("optimize")),
                   KV("preferences", PyDict(<<KV("focus_time_blocks", PyNum(90))>>))>>)

\* C6: when the coordinator answers call_service with status 200 and a JSON
\* body, call_service returns the decoded body itself, whatever its shape.
C6_BodyReturnedUnchanged ==
    (/\ last.op = "call_service"
     /\ net # <<>>
     /\ last.backend.k = "reply"
     /\ last.backend.status = 200
     /\ ~Raised(JsonLoads(last.backend.text)))
    => last.out = Return(JsonLoads(last.backend.text).v)

C6_Witness ==
    /\ last.op = "call_service"
    /\ net # <<>>
    /\ last.backend = BackendReplies(200, "application/json", "[1, 2]")
    /\ last.out = Return(PyList(<<PyNum(1), PyNum(2)>>))

\* C7: when the coordinator answers call_service with a status other than
\* 200, call_service returns a value whose error is "HTTP <status>" and whose
\* details is the whole text of the response body.
C7_HttpErrorCarriesBody ==
    (/\ last.op = "call_service"
     /\ net # <<>>
     /\ last.backend.k = "reply"
     /\ last.backend.status # 200)
    => /\ last.out.k = "return"
       /\ IsDict(last.out.v)
       /\ Keys(last.out.v) = {"error", "details"}
       /\ GetKey(last.out.v, "error") = PyStr("HTTP " \o ToString(last.backend.status))
       /\ GetKey(last.out.v, "details") = PyStr(last.backend.text)

C7_Witness ==
    /\ last.op = "call_service"
    /\ net # <<>>
    /\ last.backend = BackendReplies(500, "application/json", "boom")
    /\ last.out = Return(PyDict(<<KV("error", PyStr("HTTP 500")),
                                  KV("details", PyStr("boom"))>>))

-----------------------------------------------------------------------------
(* Properties of MCPClient.execute_tool and of the clients together       *)

\* C2: execute_tool called with an api_key that is None or empty issues no
\* network request and returns a failure (status "error") whose message says
\* that an API key is required, whatever the tool name and the parameters.
C2_NoKeyNoToolRequest ==
    (last.op = "execute_tool" /\ (last.args.api_key.t = "null" \/ last.args.api_key.v = "")) =>
        /\ net = <<>>
        /\ last.out.k = "return"
        /\ IsDict(last.out.v)
        /\ {"status", "error"} \subseteq Keys(last.out.v)
        /\ GetKey(last.out.v, "status") = PyStr("error")
        /\ GetKey(last.out.v, "error").t = "str"
        /\ Contains(GetKey(last.out.v, "error").v, "API key required")

C2_Witness ==
    /\ last.op = "execute_tool"
    /\ last.args.api_key = PyNone
    /\ last.args.tool_name = "tide_create"
    /\ last.args.parameters = PyDict(<<KV("title", PyStr("Morning focus"))>>)
    /\ net = <<>>
    /\ last.out = Return(PyDict(<<KV("status", PyStr("error")),
                                  KV("error", PyStr("API key required for MCP tool execution")),
                                  KV("tool", PyStr("tide_create"))>>))

\* C8: call_service, chat and execute_tool always return a value: no
\* exception leaves them, whether the transport raises or the backend replies
\* with any status, a body that is not JSON, or JSON of any shape.
C8_NoExceptionEscapes ==
    last.op \in {"call_service", "chat", "execute_tool"} => last.out.k = "return"

C8_Witness ==
    /\ last.op = "execute_tool"
    /\ last.args.api_key = PyStr("tides_testuser_001")
    /\ last.backend = BackendReplies(200, "text/event-stream; charset=utf-8", "data: 5")
    /\ Len(net) = 1
    /\ last.out.k = "return"
    /\ GetKey(last.out.v, "status") = PyStr("error")

\* C9: on a status 200 text/event-stream reply execute_tool decodes the lines
\* of the stripped body that start with "data: ", skips the lines that lack
\* the prefix or do not decode, and decides on the last decoded event alone:
\* an object with a result field gives success with exactly that value, an
\* object with an error field and no result field gives a failure with exactly
\* that value, whatever the events before it.
C9_LastEventDecides ==
    (/\ last.op = "execute_tool"
     /\ net # <<>>
     /\ last.backend.k = "reply"
     /\ last.backend.status = 200
     /\ Contains(last.backend.ctype, "text/event-stream"))
    => LET lines == Split(Strip(last.backend.text), "\n")
           decodes(i) == /\ StartsWith(lines[i], "data: ")
                         /\ ~Raised(JsonLoads(SliceFrom(lines[i], 6)))
           decoded == {i \in 1..Len(lines) : decodes(i)}
       IN (decoded # {} /\ IsDict(JsonLoads(SliceFrom(lines[Max(decoded)], 6)).v)) =>
           LET ev == JsonLoads(SliceFrom(lines[Max(decoded)], 6)).v
           IN /\ HasKey(ev, "result") =>
                    last.out = Return(PyDict(<<KV("status", PyStr("success")),
                                              KV("result", GetKey(ev, "result")),
                                              KV("tool", PyStr(last.args.tool_name))>>))
              /\ (~HasKey(ev, "result") /\ HasKey(ev, "error")) =>
                    last.out = Return(PyDict(<<KV("status", PyStr("error")),
                                              KV("error", GetKey(ev, "error")),
                                              KV("tool", PyStr(last.args.tool_name))>>))

C9_Witness ==
    /\ last.op = "execute_tool"
    /\ last.args.tool_name = "tide_list"
    /\ last.backend = BackendReplies(200, "text/event-stream; charset=utf-8",
           "data: {\"error\":\"tool failed\"}\ndata: {\"result\":{\"ok\":true}}")
    /\ Len(net) = 1
    /\ last.out = Return(PyDict(<<KV("status", PyStr("success")),
                                  KV("result", PyDict(<<KV("ok", PyBool(TRUE))>>)),
                                  KV("tool", PyStr("tide_list"))>>))

\* C10: on a status 200 text/event-stream reply, when no data line decodes or
\* the last decoded event carries neither a result nor an error field (an
\* object without them, or a number, string, array, boolean or null),
\* execute_tool returns a failure with the message "No valid events in
\* stream" and raw_response equal to the first 500 characters of the body.
C10_NoValidEvents ==
    (/\ last.op = "execute_tool"
     /\ net # <<>>
     /\ last.backend.k = "reply"
     /\ last.backend.status = 200
     /\ Contains(last.backend.ctype, "text/event-stream"))
    => LET lines == Split(Strip(last.backend.text), "\n")
           decodes(i) == /\ StartsWith(lines[i], "data: ")
                         /\ ~Raised(JsonLoads(SliceFrom(lines[i], 6)))
           decoded == {i \in 1..Len(lines) : decodes(i)}
           fieldless(ev) == ~IsDict(ev) \/ (~HasKey(ev, "result") /\ ~HasKey(ev, "error"))
       IN (decoded = {} \/ fieldless(JsonLoads(SliceFrom(lines[Max(decoded)], 6)).v)) =>
           last.out = Return(PyDict(<<KV("status", PyStr("error")),
                                     KV("error", PyStr("No valid events in stream")),
                                     KV("tool", PyStr(last.args.tool_name)),
                                     KV("raw_response",
                                        PyStr(SliceTo(last.backend.text, 500)))>>))

\* C11: on a status 200 reply whose content type is not text/event-stream and
\* whose body decodes as a JSON object, execute_tool fails with the body's
\* error value when the body has an error field, and otherwise succeeds with
\* the body's result field, null when the body has none.
C11_JsonReplyDecides ==
    (/\ last.op = "execute_tool"
     /\ net # <<>>
     /\ last.backend.k = "reply"
     /\ last.backend.status = 200
     /\ ~Contains(last.backend.ctype, "text/event-stream")
     /\ ~Raised(JsonLoads(last.backend.text))
     /\ JsonLoads(last.backend.text).v.t = "obj")
    => LET body == JsonLoads(last.backend.text).v
       IN last.out = Return(
             IF HasKey(body, "error")
             THEN PyDict(<<KV("status", PyStr("error")),
                           KV("error", GetKey(body, "error")),
                           KV("tool", PyStr(last.args.tool_name))>>)
             ELSE PyDict(<<KV("status", PyStr("success")),
                           KV("result", IF HasKey(body, "result")
                                        THEN GetKey(body, "result") ELSE PyNone),
                           KV("tool", PyStr(last.args.tool_name))>>))

C11_Witness ==
    /\ last.op = "execute_tool"
    /\ last.args.tool_name = "tide_list"
    /\ last.backend = BackendReplies(200, "application/json", "{\"jsonrpc\":\"2.0\"}")
    /\ Len(net) = 1
    /\ last.out = Return(PyDict(<<KV("status", PyStr("success")),
                                  KV("result", PyNone),
                                  KV("tool", PyStr("tide_list"))>>))

\* C12: on a status 200 reply whose content type is not text/event-stream and
\* whose body is not JSON, execute_tool returns a failure whose message is
\* "Invalid JSON response: " followed by the first 200 characters of the body,
\* not the message of a failed request.
C12_InvalidJsonExcerpt ==
    (/\ last.op = "execute_tool"
     /\ net # <<>>
     /\ last.backend.k = "reply"
     /\ last.backend.status = 200
     /\ ~Contains(last.backend.ctype, "text/event-stream")
     /\ Raised(JsonLoads(last.backend.text)))
    => last.out = Return(PyDict(<<KV("status", PyStr("error")),
                                 KV("error", PyStr("Invalid JSON response: " \o
                                        (IF Len(last.backend.text) <= 200
                                         THEN last.backend.text
                                         ELSE SubSeq(last.backend.text, 1, 200)))),
                                 KV("tool", PyStr(last.args.tool_name))>>))

C12_Witness ==
    /\ last.op = "execute_tool"
    /\ last.backend.k = "reply"
    /\ last.backend.status = 200
    /\ last.backend.ctype = ""
    /\ Len(last.backend.text) > 200
    /\ Len(net) = 1
    /\ GetKey(last.out.v, "error").v =
          "Invalid JSON response: " \o SubSeq(last.backend.text, 1, 200)

\* C13: when the tool server answers execute_tool with a status other than
\* 200, execute_tool returns a failure whose message contains the status code
\* and the text of the response body, whatever the reply's content type.
C13_ToolHttpError ==
    (/\ last.op = "execute_tool"
     /\ net # <<>>
     /\ last.backend.k = "reply"
     /\ last.backend.status # 200)
    => /\ last.out.k = "return"
       /\ GetKey(last.out.v, "status") = PyStr("error")
       /\ GetKey(last.out.v, "error").t = "str"
       /\ Contains(GetKey(last.out.v, "error").v, ToString(last.backend.status))
       /\ Contains(GetKey(last.out.v, "error").v, last.backend.text)

C13_Witness ==
    /\ last.op = "execute_tool"
    /\ last.args.tool_name = "tide_create"
    /\ last.backend = BackendReplies(500, "text/event-stream; charset=utf-8",
                                     "data: {\"result\":1}")
    /\ Len(net) = 1
    /\ last.out = Return(PyDict(<<KV("status", PyStr("error")),
                                  KV("error", PyStr("HTTP 500: data: {\"result\":1}")),
                                  KV("tool", PyStr("tide_create"))>>))

-----------------------------------------------------------------------------
(* Properties of sequences of invocations                                 *)

\* C14: a call of call_service or execute_tool returns what the same call,
\* with the same arguments and the same backend answer, returns on the client
\* as constructed: no earlier invocation, returned or failed, changes the
\* result of a later one.
C14_SameCallSameResult ==
    /\ last.op = "call_service" =>
           last.out = call_service(AgentClient("102 - Staging", DEFAULT_TIMEOUT),
                                   last.args.service, last.args.api_key,
                                   last.args.tide_id, last.args.kwargs,
                                   last.backend).out
    /\ last.op = "execute_tool" =>
           last.out = execute_tool(MCPClient("102 - Staging"),
                                   last.args.tool_name, last.args.parameters,
                                   last.args.api_key, last.backend).out

C14_Witness ==
    /\ earlier = "failed"
    /\ last.op = "call_service"
    /\ last.args.service = "insights"
    /\ last.args.api_key = PyNone
    /\ last.backend = BackendReplies(200, "application/json", "{\"response\":\"pong\"}")
    /\ GetKey(last.out.v, "error") = PyStr("API key required")

\* C18: an invocation of call_service, chat or execute_tool that passes its
\* api key check and its payload validation issues exactly one POST; one that
\* fails them issues none; no invocation issues a second request, whether the
\* transport raised, the status was not 200 or the body did not decode.
C18_OneRequestPerCall ==
    last.op \in {"call_service", "chat", "execute_tool"} =>
        Len(net) =
            (IF /\ last.args.api_key.t = "str"
                /\ last.args.api_key.v # ""
                /\ last.op = "call_service" =>
                       /\ last.args.service \in {"insights", "optimize", "questions",
                                                  "preferences", "reports", "chat",
                                                  "r2-test"}
                       /\ last.args.service = "r2-test" =>
                              HasKey(last.args.kwargs, "r2_path")
             THEN 1 ELSE 0)

C18_Witness ==
    /\ last.op = "chat"
    /\ last.args.api_key = PyStr("tides_testuser_001")
    /\ last.backend = BackendRaises("Timeout", "Read timed out")
    /\ Len(net) = 1
    /\ net[1].url = "https://tides-agent-102.mpazbot.workers.dev/coordinator"
    /\ last.out.v.t = "str"

\* C19: after any sequence of invocations, whatever their outcomes, the
\* fields of both clients equal their values at construction; the api key
\* given to a call is never stored; and after an invocation that returned a
\* failure the next call with a key issues its request and returns a value.
C19_ClientsUnchanged ==
    /\ agent = AgentClient("102 - Staging", DEFAULT_TIMEOUT)
    /\ agent.api_key = PyNone
    /\ mcp = MCPClient("102 - Staging")
    /\ (/\ earlier = "failed"
        /\ last.op \in {"chat", "test_connection", "execute_tool"}
        /\ last.args.api_key.t = "str"
        /\ last.args.api_key.v # "")
       => (Len(net) = 1 /\ last.out.k = "return")

C19_Witness ==
    /\ earlier = "failed"
    /\ last.op = "execute_tool"
    /\ last.args.api_key = PyStr("tides_testuser_001")
    /\ last.backend = BackendReplies(200, "application/json", "{\"result\":1,\"error\":2}")
    /\ Len(net) = 1
    /\ agent.api_key = PyNone
    /\ agent.tides_id = PyStr(DEFAULT_TIDE_ID)
    /\ mcp.base_url = MCP_BASE_URL

-----------------------------------------------------------------------------
(* Properties of the requests and of AgentClient.chat                     *)

\* C15: every request sent by call_service and by chat goes to the client's
\* base URL followed by "/coordinator", for every service name, chat
\* included, whatever endpoint SERVICE_DEFINITIONS lists for the service.
C15_AlwaysCoordinator ==
    last.op \in {"call_service", "chat"} =>
        \A i \in 1..Len(net) : net[i].url = agent.base_url \o "/coordinator"

C15_Witness ==
    /\ last.op = "call_service"
    /\ last.args.service = "chat"
    /\ last.args.api_key = PyStr("tides_testuser_001")
    /\ Len(net) = 1
    /\ net[1].url = "https://tides-agent-102.mpazbot.workers.dev/coordinator"

\* C16: given a status 200 body that is an object whose data field is an
\* object containing message, chat returns exactly data.message, unless a
\* service formatter applies (metadata.service is insights with
\* productivity_score in data, optimize with recommendations, or reports with
\* summary); message wins over response and answer in data and over every
\* top-level field.
C16_ChatReturnsDataMessage ==
    (/\ last.op = "chat"
     /\ net # <<>>
     /\ last.backend.k = "reply"
     /\ last.backend.status = 200
     /\ ~Raised(JsonLoads(last.backend.text))
     /\ JsonLoads(last.backend.text).v.t = "obj"
     /\ HasKey(JsonLoads(last.backend.text).v, "data")
     /\ GetKey(JsonLoads(last.backend.text).v, "data").t = "obj"
     /\ HasKey(GetKey(JsonLoads(last.backend.text).v, "data"), "message"))
    => LET body == JsonLoads(last.backend.text).v
           data == GetKey(body, "data")
           named(service) ==
               /\ HasKey(body, "metadata")
               /\ GetKey(body, "metadata").t = "obj"
               /\ HasKey(GetKey(body, "metadata"), "service")
               /\ GetKey(GetKey(body, "metadata"), "service").t = "str"
               /\ GetKey(GetKey(body, "metadata"), "service").v = service
           formatted ==
               \/ named("insights") /\ HasKey(data, "productivity_score")
               \/ named("optimize") /\ HasKey(data, "recommendations")
               \/ named("reports") /\ HasKey(data, "summary")
       IN ~formatted => last.out = Return(GetKey(data, "message"))

\* C17: for every status 200 body that decodes, whatever the shape of its
\* optional fields (metadata absent, null or not an object included), chat
\* returns a digest of the body and never a connection failure text.
C17_FormatterNeverFails ==
    (/\ last.op = "chat"
     /\ net # <<>>
     /\ last.backend.k = "reply"
     /\ last.backend.status = 200
     /\ ~Raised(JsonLoads(last.backend.text)))
    => ~(/\ last.out.v.t = "str"
         /\ Contains(last.out.v.v, "Connection failed"))

\* C20 as stated: in the payload call_service sends, insights passes a
\* supplied timeframe through as timeframe; optimize never has timeframe and
\* carries preferences {focus_time_blocks: 90}; reports has a supplied
\* timeframe as period and never as timeframe; with no timeframe supplied
\* neither timeframe nor period appears.
C20_TimeframeAsStated ==
    (last.op = "call_service" /\ Len(net) = 1) =>
        /\ (last.args.service = "insights" /\ HasKey(last.args.kwargs, "timeframe")) =>
               /\ HasKey(net[1].json, "timeframe")
               /\ GetKey(net[1].json, "timeframe") = GetKey(last.args.kwargs, "timeframe")
        /\ last.args.service = "optimize" =>
               /\ ~HasKey(net[1].json, "timeframe")
               /\ HasKey(net[1].json, "preferences")
               /\ GetKey(net[1].json, "preferences") =
                      PyDict(<<KV("focus_time_blocks", PyNum(90))>>)
        /\ (last.args.service = "reports" /\ HasKey(last.args.kwargs, "timeframe")) =>
               /\ ~HasKey(net[1].json, "timeframe")
               /\ HasKey(net[1].json, "period")
               /\ GetKey(net[1].json, "period") = GetKey(last.args.kwargs, "timeframe")
        /\ ~HasKey(last.args.kwargs, "timeframe") =>
               (~HasKey(net[1].json, "timeframe") /\ ~HasKey(net[1].json, "period"))

\* C20: as above, except that optimize carries preferences
\* {focus_time_blocks: 90} exactly when a timeframe is supplied, and has no
\* preferences field when none is.
C20_TimeframeHandling ==
    (last.op = "call_service" /\ Len(net) = 1) =>
        /\ (last.args.service = "insights" /\ HasKey(last.args.kwargs, "timeframe")) =>
               /\ HasKey(net[1].json, "timeframe")
               /\ GetKey(net[1].json, "timeframe") = GetKey(last.args.kwargs, "timeframe")
        /\ last.args.service = "optimize" =>
               /\ ~HasKey(net[1].json, "timeframe")
               /\ HasKey(net[1].json, "preferences") = HasKey(last.args.kwargs, "timeframe")
               /\ HasKey(net[1].json, "preferences") =>
                      GetKey(net[1].json, "preferences") =
                          PyDict(<<KV("focus_time_blocks", PyNum(90))>>)
        /\ (last.args.service = "reports" /\ HasKey(last.args.kwargs, "timeframe")) =>
               /\ ~HasKey(net[1].json, "timeframe")
               /\ HasKey(net[1].json, "period")
               /\ GetKey(net[1].json, "period") = GetKey(last.args.kwargs, "timeframe")
        /\ ~HasKey(last.args.kwargs, "timeframe") =>
               (~HasKey(net[1].json, "timeframe") /\ ~HasKey(net[1].json, "period"))

C20_Witness ==
    /\ last.op = "call_service"
    /\ last.args.service = "reports"
    /\ last.args.api_key = PyStr("tides_testuser_001")
    /\ last.args.tide_id = PyNone
    /\ last.args.kwargs = PyDict(<<KV("timeframe", PyStr("7d"))>>)
    /\ Len(net) = 1
    /\ net[1].json =
          PyDict(<<KV("api_key", PyStr("tides_testuser_001")),
                   KV("tides_id", PyStr("daily-tide-default")),
                   KV("service", PyStr("reports")),
                   KV("report_type", PyStr("summary")),
                   KV("period", PyStr("7d"))>>)

-----------------------------------------------------------------------------
(* Properties of the values the clients hand to the presentation layer    *)

\* C21: the value call_service returns is a tagged result. It is returned
\* (nothing is raised), and the presentation layer's test "error" in result
\* is true exactly when the call failed: no api key, a payload that could
\* not be built, a status other than 200, or an exception (transport, or a
\* body that does not decode). Every status 200 reply that decodes is
\* therefore classified as a success.
C21_ErrorKeyIffFailed ==
    last.op = "call_service" =>
        /\ last.out.k = "return"
        /\ PyIn("error", last.out.v) =
               Return(PyBool(~(/\ net # <<>>
                               /\ last.backend.k = "reply"
                               /\ last.backend.status = 200
                               /\ ~Raised(JsonLoads(last.backend.text)))))

\* C23: execute_tool always returns a mapping whose status is "success" or
\* "error", whose tool is the tool_name it was called with, and which has
\* the key result exactly when the status is success and the key error
\* exactly when the status is error; _execute_mcp_tool therefore never takes
\* its "unexpected response" branch.
C23_ToolResultShape ==
    last.op = "execute_tool" =>
        /\ last.out.k = "return"
        /\ IsDict(last.out.v)
        /\ HasKey(last.out.v, "status")
        /\ GetKey(last.out.v, "status") \in {PyStr("success"), PyStr("error")}
        /\ HasKey(last.out.v, "tool")
        /\ GetKey(last.out.v, "tool") = PyStr(last.args.tool_name)
        /\ HasKey(last.out.v, "result") <=>
               GetKey(last.out.v, "status") = PyStr("success")
        /\ HasKey(last.out.v, "error") <=>
               GetKey(last.out.v, "status") = PyStr("error")
        /\ _execute_mcp_tool(last.out.v) \in {"success", "error"}

C23_Witness ==
    /\ last.op = "execute_tool"
    /\ last.args.tool_name = "tide_list"
    /\ last.backend.k = "reply"
    /\ last.backend.status = 200
    /\ Len(net) = 1
    /\ Keys(last.out.v) = {"status", "result", "tool"}
    /\ _execute_mcp_tool(last.out.v) = "success"

\* C24: when the terminal JSON object of a status 200 reply to execute_tool
\* carries both a result field and an error field, the framing decides: as
\* the last event of a text/event-stream body the result wins and the call
\* returns success with it; as a plain JSON body the error wins and the call
\* returns error with it.
C24_FramingDecides ==
    (/\ last.op = "execute_tool"
     /\ net # <<>>
     /\ last.backend.k = "reply"
     /\ last.backend.status = 200)
    => /\ (/\ Contains(last.backend.ctype, "text/event-stream")
           /\ StreamEvents(Split(Strip(last.backend.text), "\n"), 1) # <<>>
           /\ IsDict(last_event(StreamEvents(Split(Strip(last.backend.text), "\n"), 1)))
           /\ HasKey(last_event(StreamEvents(Split(Strip(last.backend.text), "\n"), 1)),
                     "result")
           /\ HasKey(last_event(StreamEvents(Split(Strip(last.backend.text), "\n"), 1)),
                     "error"))
          => last.out =
                 Return(ToolSuccess(last.args.tool_name,
                     GetKey(last_event(StreamEvents(Split(Strip(last.backend.text),
                                                          "\n"), 1)), "result")))
       /\ (/\ ~Contains(last.backend.ctype, "text/event-stream")
           /\ ~Raised(JsonLoads(last.backend.text))
           /\ IsDict(JsonLoads(last.backend.text).v)
           /\ HasKey(JsonLoads(last.backend.text).v, "result")
           /\ HasKey(JsonLoads(last.backend.text).v, "error"))
          => last.out =
                 Return(ToolError(last.args.tool_name,
                     GetKey(JsonLoads(last.backend.text).v, "error")))

C24_Witness ==
    /\ last.op = "execute_tool"
    /\ Len(net) = 1
    /\ last.backend =
           BackendReplies(200, "text/event-stream; charset=utf-8",
                          "data: {\"result\":1,\"error\":2}")
    /\ last.out = Return(ToolSuccess(last.args.tool_name, PyNum(1)))

-----------------------------------------------------------------------------
(* Properties of the chat tab and the monitoring tab                      *)

\* C25: processing one chat message appends exactly one user message with the
\* prompt followed by exactly one assistant message to the history, whichever
\* branch is taken (status 200, another status, an undecodable body, a
\* transport exception); so the history always has even length and
\* alternates user, assistant, starting with user.
C25_UserThenAssistant ==
    /\ [](/\ Len(GetKey(session, "messages").v) % 2 = 0
          /\ \A i \in 1..Len(GetKey(session, "messages").v) :
                GetKey(GetKey(session, "messages").v[i], "role") =
                    PyStr(IF i % 2 = 1 THEN "user" ELSE "assistant"))
    /\ [][ui'.op = "_process_chat_message" =>
            /\ Len(GetKey(session', "messages").v) =
                   Len(GetKey(session, "messages").v) + 2
            /\ SubSeq(GetKey(session', "messages").v, 1,
                      Len(GetKey(session, "messages").v)) =
                   GetKey(session, "messages").v
            /\ GetKey(session', "messages").v[Len(GetKey(session, "messages").v) + 1] =
                   PyDict(<<KV("role", PyStr("user")),
                            KV("content", PyStr(ui'.args.prompt))>>)
            /\ GetKey(GetKey(session', "messages").v[
                          Len(GetKey(session, "messages").v) + 2], "role") =
                   PyStr("assistant")]_vars

C25_Witness ==
    /\ ui.op = "_process_chat_message"
    /\ ui.args.replies = <<BackendReplies(200, "text/html", "<html>Bad Gateway</html>")>>
    /\ Len(GetKey(session, "messages").v) = 4
    /\ GetKey(GetKey(session, "messages").v[2], "status_code") = PyNum(500)
    /\ GetKey(GetKey(session, "messages").v[4], "status_code") = PyNone

\* What a processed chat message leaves behind when the direct request counts
\* as answered under `answered`: two requests to the coordinator, and an
\* assistant entry with raw_response and status_code of the first reply and
\* the content agent_client.chat made of the second; otherwise one request.
ChatPosts(answered) ==
    /\ net # <<>>
    /\ \A i \in 1..Len(net) : net[i].url = agent.base_url \o "/coordinator"
    /\ Len(net) = Len(ui.args.replies)
    /\ IF answered
       THEN /\ Len(net) = 2
            /\ GetKey(GetKey(session, "messages").v[Len(GetKey(session, "messages").v)],
                      "raw_response") = JsonLoads(ui.args.replies[1].text).v
            /\ GetKey(GetKey(session, "messages").v[Len(GetKey(session, "messages").v)],
                      "status_code") = PyNum(200)
            /\ GetKey(GetKey(session, "messages").v[Len(GetKey(session, "messages").v)],
                      "content") =
                   chat(agent, PyStr(ui.args.prompt), GetKey(session, "api_key"),
                        GetKey(session, "user_id"), PyStr(ui.args.tide_id),
                        GetKey(net[2].json, "timestamp").v, ui.args.replies[2]).out.v
       ELSE Len(net) = 1

\* C26 as stated: a chat message whose direct request is answered with
\* status 200 causes exactly two requests to the coordinator, the assistant
\* entry taking raw_response and status_code from the first reply and content
\* from the second; with another status or an exception exactly one request
\* is attempted.
C26_TwoPostsOnStatus200 ==
    ui.op = "_process_chat_message" =>
        ChatPosts(ui.args.replies[1].k = "reply" /\ ui.args.replies[1].status = 200)

\* C26, amended: the second request is made when the direct request is
\* answered with status 200 and a body that decodes as JSON; a status 200
\* body that does not decode goes the way of the exceptions, with one request.
C26_TwoPostsOnDecoded200 ==
    ui.op = "_process_chat_message" =>
        ChatPosts(/\ ui.args.replies[1].k = "reply"
                  /\ ui.args.replies[1].status = 200
                  /\ ~Raised(JsonLoads(ui.args.replies[1].text)))

C26_Witness ==
    /\ ui.op = "_process_chat_message"
    /\ ui.args.replies =
           <<BackendReplies(200, "application/json", "null"),
             BackendReplies(200, "application/json",
                            "{\"success\":true,\"data\":{\"message\":\"hi\"}}")>>
    /\ Len(net) = 2
    /\ GetKey(GetKey(session, "messages").v[2], "raw_response") = PyNone
    /\ GetKey(GetKey(session, "messages").v[2], "content") = PyStr("hi")

\* C27: render_monitoring_tab renders without raising in every session state:
\* the session's environment always has a second part after " - ".
C27_MonitoringRenders ==
    ui.op = "render_monitoring_tab" => ui.out.k = "return"

-----------------------------------------------------------------------------
(* Properties of the API tests tab                                        *)

\* C22: once the quick test suite has been started, the next render runs
\* exactly four call_service invocations, in the order insights, questions,
\* preferences, chat, each with the api key and the tide id stored when the
\* suite was started, whatever the earlier invocations returned; and when
\* the render is over running_suite is false again.
C22_SuiteRunsOnce ==
    (ui.op = "render_api_tests_tab" /\ ui.args.suite) =>
        /\ Len(ui.calls) = 4
        /\ \A i \in 1..Len(ui.calls) :
              /\ ui.calls[i].service = <<"insights", "questions", "preferences", "chat">>[i]
              /\ ui.calls[i].api_key = GetKey(session, "suite_api_key")
              /\ ui.calls[i].tide_id = GetKey(session, "suite_tide_id")
        /\ ~SuiteRunning
====
